---- MODULE Spec2Model ----
(***************************************************************************)
(* Sidecar process supervisor of src-tauri/src/main.rs: the process-wide   *)
(* statics, main() and its run-event handlers, start_sidecar, the exit     *)
(* watcher, shutdown_sidecar_graceful and the process primitives, together *)
(* with the operating system's process table.                              *)
(***************************************************************************)
EXTENDS Integers, Sequences, FiniteSets, TLC

(* ------------------------------------------------------------------ *)
(* Bounds of the model                                                 *)
(* ------------------------------------------------------------------ *)
\* calls of start_sidecar (main.rs issues the first one from setup())
MaxLaunch == 2
\* direct children a worker forks when it starts
MaxChildren == 1
\* provisioning-station processes left over from a previous run
MaxLeftover == 1

(* ------------------------------------------------------------------ *)
(* Program constants                                                   *)
(* ------------------------------------------------------------------ *)
GRACEFUL_SHUTDOWN_TIMEOUT_SECS == 5
\* let max_checks = (GRACEFUL_SHUTDOWN_TIMEOUT_SECS * 1000 / 100) as u32
max_checks == (GRACEFUL_SHUTDOWN_TIMEOUT_SECS * 1000) \div 100
\* for _ in 0..10: the polls after the forced kill
force_checks == 10
\* for attempt in 1..=60: the health probes
health_attempts == 60

(* ------------------------------------------------------------------ *)
(* The process table                                                   *)
(* ------------------------------------------------------------------ *)
\* The n-th spawned worker has PID n, its j-th child PID 10n+j, the j-th
\* leftover process PID 100+j.  PID 0 is "none" (SIDECAR_PID's initial value).
WorkerPids == 1..MaxLaunch
ChildPids == {10 * n + j : n \in WorkerPids, j \in 1..MaxChildren}
LeftPids == {100 + j : j \in 1..MaxLeftover}
AllPids == WorkerPids \cup ChildPids \cup LeftPids
Parent(c) == c \div 10

\* How a process answers signals:
\*   obey   exits some time after a graceful signal (or of its own accord:
\*          it finishes or crashes); a forced kill ends it
\*   ignore ignores the graceful signal and never exits by itself; a forced
\*          kill ends it
\*   stuck  as ignore, and a forced kill has no effect on it either
\* A process is "run"ning, "termed" (running, a graceful signal received and
\* about to be obeyed) or absent ("none": never started, or exited).  Its
\* command line / image name is the worker's ("provisioning-station": named)
\* or not; the worker's own always is, a child's may be either.
Kinds == {"obey", "ignore", "stuck"}
ChildKinds == {"obey", "ignore"}
NoProc == [st |-> "none", kind |-> "obey", named |-> FALSE]

Alive(P, p) == p \in DOMAIN P /\ P[p].st \in {"run", "termed"}
\* children are re-parented when their parent exits: Unix tools that look a
\* tree up by parent PID find them only while the parent lives
LiveKids(P, p) == {c \in ChildPids : Parent(c) = p /\ Alive(P, c)}
Tree(P, p) == IF Alive(P, p) THEN {p} \cup LiveKids(P, p) ELSE {}

\* SIGTERM / WM_CLOSE delivered to the processes of S
Term(P, S) ==
  [p \in DOMAIN P |->
     IF p \in S /\ P[p].st = "run" /\ P[p].kind = "obey"
     THEN [P[p] EXCEPT !.st = "termed"] ELSE P[p]]
\* SIGKILL / TerminateProcess delivered to the processes of S
Kill(P, S) ==
  [p \in DOMAIN P |->
     IF p \in S /\ Alive(P, p) /\ P[p].kind # "stuck"
     THEN NoProc ELSE P[p]]

\* fn is_process_running(pid): kill -0 / tasklist
is_process_running(P, pid) == Alive(P, pid)

\* fn send_terminate_signal(pid): pkill -15 -P pid; kill -15 pid  (Unix),
\* taskkill /PID pid /T (Windows): the process and its live children
send_terminate_signal(P, pid) == Term(P, Tree(P, pid))

\* fn force_kill_process(pid): pkill -9 -P pid; kill -9 pid (Unix),
\* taskkill /F /PID pid /T (Windows)
force_kill_process(P, pid) == Kill(P, Tree(P, pid))

\* fn get_child_pids(parent_pid): pgrep -P on Unix, vec![] on Windows
get_child_pids(P, plat, pid) ==
  IF plat = "windows" THEN {}
  ELSE IF Alive(P, pid) THEN LiveKids(P, pid) ELSE {}

\* fn kill_child_processes(parent_pid): pkill -9 -P (Unix) finds the children
\* only while the parent lives; wmic ... ParentProcessId=pid delete (Windows)
\* finds them by the recorded parent PID
kill_child_processes(P, plat, pid) ==
  IF plat = "windows" THEN Kill(P, LiveKids(P, pid))
  ELSE IF Alive(P, pid) THEN Kill(P, LiveKids(P, pid)) ELSE P

\* every process whose command line / image name is the worker's
Named(P) == {p \in DOMAIN P : Alive(P, p) /\ P[p].named}

\* fn force_kill_by_name(): pkill -9 -f provisioning-station /
\* taskkill /F /IM provisioning-station.exe
force_kill_by_name(P) == Kill(P, Named(P))

\* fn cleanup_leftover_processes(): the scan (pgrep -f / wmic name like) finds
\* the named processes; cleanup_count is the returned killed_count.
cleanup_found(P) == Named(P)
cleanup_count(P) == Cardinality(cleanup_found(P))

\* A run of cleanup_leftover_processes: the process table it has made (tab),
\* its killed_count, and what it did to each found pid, in order (log):
\* "graceful" (kill -15), the outcome of is_process_running after the sleep
\* ("exited" or "running") and "force" (force_kill_process / taskkill /F).
ReapStart(P) == [tab |-> P, killed_count |-> 0, log |-> <<>>]
Did(R, pid, steps) ==
  [R EXCEPT !.log = @ \o [i \in 1..Len(steps) |-> <<pid, steps[i]>>]]

\* Unix, for each found pid in turn: kill -15 pid; sleep 500 ms;
\* if is_process_running(pid) { force_kill_process(pid) }; killed_count += 1.
\* A process that obeys the signal has exited within the 500 ms or has not:
\* the set of the runs the loop can make.
RECURSIVE cleanup_unix(_, _)
cleanup_unix(R, S) ==
  IF S = {} THEN {R}
  ELSE LET pid == CHOOSE x \in S : \A y \in S : x <= y
           P1 == Term(R.tab, {pid})
           R1 == [R EXCEPT !.killed_count = @ + 1]
           gone(P) == Did([R1 EXCEPT !.tab = P], pid, <<"graceful", "exited">>)
           forced == Did([R1 EXCEPT !.tab = force_kill_process(P1, pid)], pid,
                         <<"graceful", "running", "force">>)
       IN IF ~Alive(P1, pid) THEN cleanup_unix(gone(P1), S \ {pid})
          ELSE (IF P1[pid].st = "termed"
                THEN cleanup_unix(gone([P1 EXCEPT ![pid] = NoProc]), S \ {pid}) ELSE {})
                 \cup cleanup_unix(forced, S \ {pid})

\* Windows, for each found pid in turn: taskkill /F /PID pid /T; killed_count += 1
RECURSIVE cleanup_windows(_, _)
cleanup_windows(R, S) ==
  IF S = {} THEN R
  ELSE LET pid == CHOOSE x \in S : \A y \in S : x <= y
           forced == Did([R EXCEPT !.tab = force_kill_process(R.tab, pid),
                                   !.killed_count = @ + 1], pid, <<"force">>)
       IN cleanup_windows(forced, S \ {pid})

\* the runs a call of cleanup_leftover_processes can make
cleanup_leftover_processes(P, plat) ==
  IF plat = "windows" THEN {cleanup_windows(ReapStart(P), cleanup_found(P))}
  ELSE cleanup_unix(ReapStart(P), cleanup_found(P))

(* ------------------------------------------------------------------ *)
(* State                                                               *)
(* ------------------------------------------------------------------ *)
VARIABLES
  platform,              \* "unix" | "windows": the cfg(unix)/cfg(windows) build
  proc,                  \* the operating system's process table
  SIDECAR_STARTED,       \* static AtomicBool
  BACKEND_PORT,          \* static AtomicU16, 0 before assignment
  SIDECAR_PID,           \* static AtomicU32, 0 = none
  SHUTDOWN_IN_PROGRESS,  \* static AtomicBool
  SIDECAR_CHILD,         \* static Mutex<Option<CommandChild>>: 0 = None, else the PID its handle controls
  childLock,             \* holder of the SIDECAR_CHILD mutex: "free" | "ev" | "as"
  epc,                   \* position of the main thread (main(), then the event loop)
  exitPending,           \* app_handle.exit(0) was called: ExitRequested and Exit follow
  launch,                \* the async task running start_sidecar
  body,                  \* shutdown_sidecar_graceful as run by "ev" (event loop) and "as" (start_sidecar)
  wpc,                   \* the exit watcher of each spawned worker
  spawned,               \* workers spawned so far
  killCount,             \* per process handle: invocations of CommandChild::kill
  bodyRuns,              \* executions of shutdown_sidecar_graceful started so far
  order,                 \* the reaper calls, the port allocation and the spawns so far, in order
  taken,                 \* per worker: the executions of SIDECAR_PID.swap(0) that returned its PID
  disk,                  \* the files setup_sidecar_bundle reads and writes
  stager,                \* an activation of setup_sidecar_bundle
  alloc,                 \* an activation of get_available_port
  gate,                  \* an activation of the health check loop of start_sidecar
  reap,                  \* the steps of main()'s call of cleanup_leftover_processes
  dl,                    \* an activation of sanitize_download_filename
  nav                    \* a call of the on_navigation handler of the main window

\* the state of the utility functions, which the supervisor's steps leave alone
utilVars == <<disk, stager, alloc, gate, reap, dl, nav>>

vars == <<platform, proc, SIDECAR_STARTED, BACKEND_PORT, SIDECAR_PID,
          SHUTDOWN_IN_PROGRESS, SIDECAR_CHILD, childLock, epc, exitPending,
          launch, body, wpc, spawned, killCount, bodyRuns, order, taken, utilVars>>

Threads == {"ev", "as"}

\* a shutdown_sidecar_graceful activation: its program counter, its locals
\* pid, child_pids (snap), the taken handle (h) and the loop counter, its
\* return value, the kinds of step it has taken so far (ops), in order, and
\* whether the worker was running and of the signal-ignoring kind when the
\* activation started (ign)
BodyIdle == [pc |-> "idle", pid |-> 0, snap |-> {}, h |-> 0, i |-> 0, ret |-> FALSE,
             ops |-> <<>>, ign |-> FALSE]
\* start_sidecar: its program counter, the calls made so far (n), its port
\* parameter, the health attempts made, the launch path taken (mode), its args
\* vector and the vector handed to the spawn (passed), the spawned PID, and
\* the result of the last call (ret)
LaunchIdle == [pc |-> "idle", n |-> 0, port |-> 0, attempt |-> 0, mode |-> "none",
               args |-> <<>>, passed |-> <<>>, pid |-> 0, ret |-> "none"]

Log(ops, tag) == IF Len(ops) > 0 /\ ops[Len(ops)] = tag THEN ops ELSE Append(ops, tag)

\* a file: the build it was produced by (0: the file does not exist) and its
\* length in bytes
NoFile == [build |-> 0, size |-> 0]
\* the resources of the installation (binaries/_internal, the sidecar
\* executable next to the application) and the cache directory
\* (app_data_dir()/sidecar): its executable and its _internal directory.  A
\* directory is 0 (absent), the build it is a complete copy of, or Partial.
Partial == -1
NoDisk == [internal_src |-> 0, sidecar_src |-> NoFile,
           extracted_exe |-> NoFile, extracted_internal |-> 0]
\* the last call of setup_sidecar_bundle: its result, the file operations it
\* performed, and the disk before and after it
StagerIdle == [ret |-> "none", ops |-> <<>>, pre |-> NoDisk, post |-> NoDisk]
\* get_available_port: its position, the loop variable attempt, the port
\* portpicker suggested (hint), the verification binds that failed, the port
\* returned and the path it came from (via); busy is the set of loopback
\* ports other processes hold
AllocIdle == [pc |-> "idle", attempt |-> 0, hint |-> 0, fails |-> 0, ret |-> 0,
              via |-> "none", busy |-> {}]
\* the health check loop: its position, the loop variable attempt, the
\* requests sent, its result; srv is what listens on the backend port
GateIdle == [pc |-> "idle", attempt |-> 0, probes |-> 0, ret |-> "none", srv |-> "down"]
\* main()'s call of cleanup_leftover_processes: the pids its scan found, its
\* steps and the count it returned
ReapIdle == [called |-> FALSE, found |-> {}, log |-> <<>>, cleaned |-> 0]
\* sanitize_download_filename: its argument and its result, both sequences
\* of characters
DlIdle == [pc |-> "idle", raw |-> <<>>, out |-> <<>>]
\* a host: url.host_str() is None, or Some(name), the name given by its
\* labels ("localhost.evil.com" is <<"localhost", "evil", "com">>)
NoHost == [some |-> FALSE, name |-> <<>>]
\* the on_navigation closure: its position, the scheme and the host of the
\* url, is_external, whether shell.open was called, and the value returned
NavIdle == [pc |-> "idle", scheme |-> "", host |-> NoHost, is_external |-> FALSE,
            opened |-> FALSE, ret |-> FALSE]

Init ==
  /\ platform \in {"unix", "windows"}
  /\ \E k \in 0..MaxLeftover : \E kd \in {"obey", "ignore"} :
       proc = [p \in AllPids |->
                 IF p \in LeftPids /\ p - 100 <= k
                 THEN [st |-> "run", kind |-> kd, named |-> TRUE] ELSE NoProc]
  /\ SIDECAR_STARTED = FALSE
  /\ BACKEND_PORT = 0
  /\ SIDECAR_PID = 0
  /\ SHUTDOWN_IN_PROGRESS = FALSE
  /\ SIDECAR_CHILD = 0
  /\ childLock = "free"
  /\ epc = "main_cleanup"
  /\ exitPending = FALSE
  /\ launch = LaunchIdle
  /\ body = [t \in Threads |-> BodyIdle]
  /\ wpc = [n \in WorkerPids |-> "none"]
  /\ spawned = 0
  /\ killCount = [n \in WorkerPids |-> 0]
  /\ bodyRuns = 0
  /\ order = <<>>
  /\ taken = [n \in WorkerPids |-> 0]
  /\ disk = NoDisk /\ stager = StagerIdle /\ alloc = AllocIdle /\ gate = GateIdle
  /\ reap = ReapIdle /\ dl = DlIdle /\ nav = NavIdle

\* the application process is alive (std::process::exit has not run)
Up == epc # "terminated"

(* ------------------------------------------------------------------ *)
(* The operating system: processes exit                                *)
(* ------------------------------------------------------------------ *)
ProcExit(p) ==
  /\ Up
  /\ Alive(proc, p) /\ proc[p].kind = "obey"
  /\ proc' = [proc EXCEPT ![p] = NoProc]
  /\ UNCHANGED <<order, taken, utilVars, platform, SIDECAR_STARTED, BACKEND_PORT, SIDECAR_PID,
                 SHUTDOWN_IN_PROGRESS, SIDECAR_CHILD, childLock, epc, exitPending,
                 launch, body, wpc, spawned, killCount, bodyRuns>>

\* The port get_available_port returns.  The supervisor only stores it, passes
\* it on and formats it into the health URL, so one value stands for all.
PortValues == {8765}

(* ------------------------------------------------------------------ *)
(* main(): cleanup, port, setup                                        *)
(* ------------------------------------------------------------------ *)
\* main() going on to the port selection without the cleanup
MainCleanup_Skipped ==
  /\ epc = "main_cleanup"
  /\ epc' = "main_port"
  /\ UNCHANGED <<order, taken, utilVars, platform, proc, SIDECAR_STARTED, BACKEND_PORT, SIDECAR_PID,
                 SHUTDOWN_IN_PROGRESS, SIDECAR_CHILD, childLock, exitPending,
                 launch, body, wpc, spawned, killCount, bodyRuns>>

\* let cleaned = cleanup_leftover_processes();
MainCleanup ==
  /\ epc = "main_cleanup"
  /\ \E r \in cleanup_leftover_processes(proc, platform) : proc' = r.tab
  /\ epc' = "main_port"
  /\ order' = Append(order, "reap")
  /\ UNCHANGED <<taken, utilVars, platform, SIDECAR_STARTED, BACKEND_PORT, SIDECAR_PID,
                 SHUTDOWN_IN_PROGRESS, SIDECAR_CHILD, childLock, exitPending,
                 launch, body, wpc, spawned, killCount, bodyRuns>>

\* let backend_port = get_available_port(); BACKEND_PORT.store(backend_port)
MainPort ==
  /\ epc = "main_port"
  /\ \E port \in PortValues : BACKEND_PORT' = port
  /\ epc' = "main_setup"
  /\ order' = Append(order, "port")
  /\ UNCHANGED <<taken, utilVars, platform, proc, SIDECAR_STARTED, SIDECAR_PID,
                 SHUTDOWN_IN_PROGRESS, SIDECAR_CHILD, childLock, exitPending,
                 launch, body, wpc, spawned, killCount, bodyRuns>>

\* fn get_backend_port() -> u16 { BACKEND_PORT.load(Ordering::SeqCst) }
get_backend_port == BACKEND_PORT

\* setup() handing start_sidecar a port of its own choice
MainSetup_OtherPort ==
  /\ epc = "main_setup"
  /\ launch' = [launch EXCEPT !.pc = "check", !.n = 1, !.port = BACKEND_PORT + 1,
                              !.ret = "none"]
  /\ epc' = "loop"
  /\ UNCHANGED <<order, taken, utilVars, platform, proc, SIDECAR_STARTED, BACKEND_PORT, SIDECAR_PID,
                 SHUTDOWN_IN_PROGRESS, SIDECAR_CHILD, childLock, exitPending,
                 body, wpc, spawned, killCount, bodyRuns>>

\* .setup(): let port = backend_port;
\* tauri::async_runtime::spawn(start_sidecar(&handle, port)), then
\* the window is built and run() enters the event loop
MainSetup ==
  /\ epc = "main_setup"
  /\ launch' = [launch EXCEPT !.pc = "check", !.n = 1, !.port = BACKEND_PORT, !.ret = "none"]
  /\ epc' = "loop"
  /\ UNCHANGED <<order, taken, utilVars, platform, proc, SIDECAR_STARTED, BACKEND_PORT, SIDECAR_PID,
                 SHUTDOWN_IN_PROGRESS, SIDECAR_CHILD, childLock, exitPending,
                 body, wpc, spawned, killCount, bodyRuns>>

(* ------------------------------------------------------------------ *)
(* start_sidecar                                                       *)
(* ------------------------------------------------------------------ *)
\* a later call of start_sidecar, made after an earlier call has returned Ok
CallStart ==
  /\ Up
  /\ launch.pc = "idle" /\ launch.ret = "ok" /\ launch.n < MaxLaunch
  /\ launch' = [launch EXCEPT !.pc = "check", !.n = @ + 1, !.ret = "none"]
  /\ UNCHANGED <<order, taken, utilVars, platform, proc, SIDECAR_STARTED, BACKEND_PORT, SIDECAR_PID,
                 SHUTDOWN_IN_PROGRESS, SIDECAR_CHILD, childLock, epc, exitPending,
                 body, wpc, spawned, killCount, bodyRuns>>

\* return from start_sidecar with result r: the locals go out of scope
Return(r) == [LaunchIdle EXCEPT !.n = launch.n, !.port = launch.port, !.ret = r]

\* StartCheck going on to the launch whatever SIDECAR_STARTED holds
StartCheck_NoGuard ==
  /\ Up /\ launch.pc = "check"
  /\ launch' = [launch EXCEPT !.pc = "reap"]
  /\ UNCHANGED <<order, taken, utilVars, platform, proc, SIDECAR_STARTED, BACKEND_PORT, SIDECAR_PID,
                 SHUTDOWN_IN_PROGRESS, SIDECAR_CHILD, childLock, epc, exitPending,
                 body, wpc, spawned, killCount, bodyRuns>>

\* if SIDECAR_STARTED.load() { return Ok(()) }
StartCheck ==
  /\ Up /\ launch.pc = "check"
  /\ launch' = IF SIDECAR_STARTED THEN Return("ok") ELSE [launch EXCEPT !.pc = "reap"]
  /\ UNCHANGED <<order, taken, utilVars, platform, proc, SIDECAR_STARTED, BACKEND_PORT, SIDECAR_PID,
                 SHUTDOWN_IN_PROGRESS, SIDECAR_CHILD, childLock, epc, exitPending,
                 body, wpc, spawned, killCount, bodyRuns>>

\* start_sidecar going on to the launch without the secondary cleanup
StartReap_Skipped ==
  /\ Up /\ launch.pc = "reap"
  /\ launch' = [launch EXCEPT !.pc = "stage"]
  /\ UNCHANGED <<order, taken, utilVars, platform, proc, SIDECAR_STARTED, BACKEND_PORT, SIDECAR_PID,
                 SHUTDOWN_IN_PROGRESS, SIDECAR_CHILD, childLock, epc, exitPending,
                 body, wpc, spawned, killCount, bodyRuns>>

\* let cleaned = cleanup_leftover_processes();   (secondary cleanup)
StartReap ==
  /\ Up /\ launch.pc = "reap"
  /\ \E r \in cleanup_leftover_processes(proc, platform) : proc' = r.tab
  /\ launch' = [launch EXCEPT !.pc = "stage"]
  /\ order' = Append(order, "reap")
  /\ UNCHANGED <<taken, utilVars, platform, SIDECAR_STARTED, BACKEND_PORT, SIDECAR_PID,
                 SHUTDOWN_IN_PROGRESS, SIDECAR_CHILD, childLock, epc, exitPending,
                 body, wpc, spawned, killCount, bodyRuns>>

\* let mut args = vec!["--port", port, "--host", "127.0.0.1"]; the two
\* directory flags are pushed only when the directory exists
BuildArgs(port, sol, fe) ==
  <<"--port", ToString(port), "--host", "127.0.0.1">>
    \o (IF sol THEN <<"--solutions-dir", "solutions">> ELSE <<>>)
    \o (IF fe THEN <<"--frontend-dir", "frontend/dist">> ELSE <<>>)

\* setup_sidecar_bundle(handle): Ok(extracted_exe), or Err in development
\* mode, when current_exe() fails, with the source executable missing, on a
\* copy or permission failure
StageResults == {"ok", "dev", "env", "missing", "copy", "perm"}
\* match setup_sidecar_bundle(handle) { Ok(extracted_exe) => .., Err(_) => .. }
StageMode(r) == IF r = "ok" THEN "staged" ELSE "sidecar"

StartStage ==
  /\ Up /\ launch.pc = "stage"
  /\ \E sol \in BOOLEAN, fe \in BOOLEAN, r \in StageResults :
       launch' = [launch EXCEPT !.pc = "spawn",
                                !.args = BuildArgs(launch.port, sol, fe),
                                !.mode = StageMode(r)]
  /\ UNCHANGED <<order, taken, utilVars, platform, proc, SIDECAR_STARTED, BACKEND_PORT, SIDECAR_PID,
                 SHUTDOWN_IN_PROGRESS, SIDECAR_CHILD, childLock, epc, exitPending,
                 body, wpc, spawned, killCount, bodyRuns>>

\* the default sidecar spawn handed only the four port and host arguments
SpawnArgs_FallbackBare(mode, args) ==
  IF mode = "sidecar" THEN SubSeq(args, 1, 4) ELSE args

\* the argument vector the spawn of the given mode is handed:
\* cmd.args(&args) (staged) and .sidecar(..).args(&args) (default)
SpawnArgs(mode, args) == args

\* cmd.spawn()? / sidecar.spawn()?  - the spawn fails (start_sidecar returns
\* the error) or a worker process starts and forks its children
Spawn ==
  /\ Up /\ launch.pc = "spawn"
  /\ \/ /\ launch' = Return("spawn_err")
        /\ UNCHANGED <<proc, spawned, order>>
     \/ \E k \in Kinds, nk \in 0..MaxChildren :
        \E ck \in [1..nk -> ChildKinds], cn \in [1..nk -> BOOLEAN] :
          LET pid == spawned + 1 IN
          /\ proc' = [p \in AllPids |->
                        IF p = pid THEN [st |-> "run", kind |-> k, named |-> TRUE]
                        ELSE IF p \in ChildPids /\ Parent(p) = pid /\ p - 10 * pid <= nk
                        THEN [st |-> "run", kind |-> ck[p - 10 * pid],
                              named |-> cn[p - 10 * pid]]
                        ELSE proc[p]]
          /\ spawned' = pid
          /\ order' = Append(order, "spawn")
          /\ launch' = [launch EXCEPT !.pc = "storepid", !.pid = pid,
                                      !.passed = SpawnArgs(launch.mode, launch.args)]
  /\ UNCHANGED <<taken, utilVars, platform, SIDECAR_STARTED, BACKEND_PORT, SIDECAR_PID,
                 SHUTDOWN_IN_PROGRESS, SIDECAR_CHILD, childLock, epc, exitPending,
                 body, wpc, killCount, bodyRuns>>

\* StorePid going on without the store to SIDECAR_PID
StorePid_Unrecorded ==
  /\ Up /\ launch.pc = "storepid"
  /\ launch' = [launch EXCEPT !.pc = IF launch.mode = "sidecar" THEN "storechild"
                                      ELSE "storestarted"]
  /\ UNCHANGED <<order, taken, utilVars, platform, proc, SIDECAR_STARTED, BACKEND_PORT, SIDECAR_PID,
                 SHUTDOWN_IN_PROGRESS, SIDECAR_CHILD, childLock, epc, exitPending,
                 body, wpc, spawned, killCount, bodyRuns>>

\* SIDECAR_PID.store(pid)
StorePid ==
  /\ Up /\ launch.pc = "storepid"
  /\ SIDECAR_PID' = launch.pid
  /\ launch' = [launch EXCEPT !.pc = IF launch.mode = "sidecar" THEN "storechild"
                                      ELSE "storestarted"]
  /\ UNCHANGED <<order, taken, utilVars, platform, proc, SIDECAR_STARTED, BACKEND_PORT,
                 SHUTDOWN_IN_PROGRESS, SIDECAR_CHILD, childLock, epc, exitPending,
                 body, wpc, spawned, killCount, bodyRuns>>

\* if let Ok(mut guard) = SIDECAR_CHILD.lock() { *guard = Some(child); }
StoreChild ==
  /\ Up /\ launch.pc = "storechild"
  /\ childLock = "free"
  /\ SIDECAR_CHILD' = launch.pid
  /\ launch' = [launch EXCEPT !.pc = "storestarted"]
  /\ UNCHANGED <<order, taken, utilVars, platform, proc, SIDECAR_STARTED, BACKEND_PORT, SIDECAR_PID,
                 SHUTDOWN_IN_PROGRESS, childLock, epc, exitPending,
                 body, wpc, spawned, killCount, bodyRuns>>

\* SIDECAR_STARTED.store(true); then the output readers and the exit watcher
\* are started (args is not read again)
StoreStarted ==
  /\ Up /\ launch.pc = "storestarted"
  /\ SIDECAR_STARTED' = TRUE
  /\ wpc' = [wpc EXCEPT ![launch.pid] = "wait"]
  /\ launch' = [launch EXCEPT !.pc = "health", !.attempt = 0,
                              !.args = <<>>, !.passed = <<>>]
  /\ UNCHANGED <<order, taken, utilVars, platform, proc, BACKEND_PORT, SIDECAR_PID,
                 SHUTDOWN_IN_PROGRESS, SIDECAR_CHILD, childLock, epc, exitPending,
                 body, spawned, killCount, bodyRuns>>

\* let health_url = format!("http://127.0.0.1:{}/api/health", port);
health_url(port) == "http://127.0.0.1:" \o ToString(port) \o "/api/health"

\* for attempt in 1..=60 { match client.get(&health_url).send().await {..} }
\* a success status needs a live worker; anything else is one more attempt
Health ==
  /\ Up /\ launch.pc = "health"
  /\ \/ /\ Alive(proc, launch.pid)
        /\ launch' = Return("ok")
     \/ launch' = [launch EXCEPT !.attempt = @ + 1,
                       !.pc = IF launch.attempt + 1 = health_attempts
                              THEN "timeout" ELSE "health"]
  /\ UNCHANGED <<order, taken, utilVars, platform, proc, SIDECAR_STARTED, BACKEND_PORT, SIDECAR_PID,
                 SHUTDOWN_IN_PROGRESS, SIDECAR_CHILD, childLock, epc, exitPending,
                 body, wpc, spawned, killCount, bodyRuns>>

\* TimeoutCheck going on without calling shutdown_sidecar_graceful()
TimeoutCheck_NoCleanup ==
  /\ Up /\ launch.pc = "timeout"
  /\ launch' = [launch EXCEPT !.pc = "tstore"]
  /\ UNCHANGED <<order, taken, utilVars, platform, proc, SIDECAR_STARTED, BACKEND_PORT, SIDECAR_PID,
                 SHUTDOWN_IN_PROGRESS, SIDECAR_CHILD, childLock, epc, exitPending,
                 body, wpc, spawned, killCount, bodyRuns>>

\* if SIDECAR_PID.load() != 0 { shutdown_sidecar_graceful(); }
TimeoutCheck ==
  /\ Up /\ launch.pc = "timeout"
  /\ IF SIDECAR_PID # 0
     THEN /\ launch' = [launch EXCEPT !.pc = "body"]
          /\ body' = [body EXCEPT !["as"] = [BodyIdle EXCEPT !.pc = "swap"]]
          /\ bodyRuns' = bodyRuns + 1
     ELSE /\ launch' = [launch EXCEPT !.pc = "tstore"]
          /\ UNCHANGED <<body, bodyRuns>>
  /\ UNCHANGED <<order, taken, utilVars, platform, proc, SIDECAR_STARTED, BACKEND_PORT, SIDECAR_PID,
                 SHUTDOWN_IN_PROGRESS, SIDECAR_CHILD, childLock, epc, exitPending,
                 wpc, spawned, killCount>>

\* shutdown_sidecar_graceful() has returned into start_sidecar
TimeoutBodyDone ==
  /\ Up /\ launch.pc = "body" /\ body["as"].pc = "ret"
  /\ body' = [body EXCEPT !["as"] = BodyIdle]
  /\ launch' = [launch EXCEPT !.pc = "tstore"]
  /\ UNCHANGED <<order, taken, utilVars, platform, proc, SIDECAR_STARTED, BACKEND_PORT, SIDECAR_PID,
                 SHUTDOWN_IN_PROGRESS, SIDECAR_CHILD, childLock, epc, exitPending,
                 wpc, spawned, killCount, bodyRuns>>

\* SIDECAR_STARTED.store(false)
TimeoutStore ==
  /\ Up /\ launch.pc = "tstore"
  /\ SIDECAR_STARTED' = FALSE
  /\ launch' = [launch EXCEPT !.pc = "tclear"]
  /\ UNCHANGED <<order, taken, utilVars, platform, proc, BACKEND_PORT, SIDECAR_PID,
                 SHUTDOWN_IN_PROGRESS, SIDECAR_CHILD, childLock, epc, exitPending,
                 body, wpc, spawned, killCount, bodyRuns>>

\* if let Ok(mut guard) = SIDECAR_CHILD.lock() { *guard = None; }
\* Err("Backend failed to start within timeout")
TimeoutClear ==
  /\ Up /\ launch.pc = "tclear"
  /\ childLock = "free"
  /\ SIDECAR_CHILD' = 0
  /\ launch' = Return("timeout")
  /\ UNCHANGED <<order, taken, utilVars, platform, proc, SIDECAR_STARTED, BACKEND_PORT, SIDECAR_PID,
                 SHUTDOWN_IN_PROGRESS, childLock, epc, exitPending,
                 body, wpc, spawned, killCount, bodyRuns>>

(* ------------------------------------------------------------------ *)
(* The exit watcher of a spawned worker                                *)
(* ------------------------------------------------------------------ *)
\* process.wait() has returned / CommandEvent::Terminated was received:
\* SIDECAR_STARTED.store(false)
WatcherStarted(n) ==
  /\ Up /\ wpc[n] = "wait" /\ ~Alive(proc, n)
  /\ SIDECAR_STARTED' = FALSE
  /\ wpc' = [wpc EXCEPT ![n] = "pid"]
  /\ UNCHANGED <<order, taken, utilVars, platform, proc, BACKEND_PORT, SIDECAR_PID,
                 SHUTDOWN_IN_PROGRESS, SIDECAR_CHILD, childLock, epc, exitPending,
                 launch, body, spawned, killCount, bodyRuns>>

\* WatcherPid ending without the store to SIDECAR_PID
WatcherPid_KeepsPid(n) ==
  /\ Up /\ wpc[n] = "pid"
  /\ wpc' = [wpc EXCEPT ![n] = "done"]
  /\ UNCHANGED <<order, taken, utilVars, platform, proc, SIDECAR_STARTED, BACKEND_PORT, SIDECAR_PID,
                 SHUTDOWN_IN_PROGRESS, SIDECAR_CHILD, childLock, epc, exitPending,
                 launch, body, spawned, killCount, bodyRuns>>

\* SIDECAR_PID.store(0)
WatcherPid(n) ==
  /\ Up /\ wpc[n] = "pid"
  /\ SIDECAR_PID' = 0
  /\ wpc' = [wpc EXCEPT ![n] = "done"]
  /\ UNCHANGED <<order, taken, utilVars, platform, proc, SIDECAR_STARTED, BACKEND_PORT,
                 SHUTDOWN_IN_PROGRESS, SIDECAR_CHILD, childLock, epc, exitPending,
                 launch, body, spawned, killCount, bodyRuns>>

(* ------------------------------------------------------------------ *)
(* shutdown_sidecar_graceful, run by thread t                          *)
(* ------------------------------------------------------------------ *)
\* BodySwap going on to the liveness check without get_child_pids
BodySwap_NoSnapshot(t) ==
  /\ Up /\ body[t].pc = "swap"
  /\ body' = [body EXCEPT ![t].pid = SIDECAR_PID,
                          ![t].pc = IF SIDECAR_PID = 0 THEN "zero" ELSE "check",
                          ![t].ops = Log(@, "swap"),
                          ![t].ign = /\ SIDECAR_PID # 0
                                     /\ proc[SIDECAR_PID].st = "run"
                                     /\ proc[SIDECAR_PID].kind = "ignore"]
  /\ SIDECAR_PID' = 0
  /\ taken' = IF SIDECAR_PID = 0 THEN taken ELSE [taken EXCEPT ![SIDECAR_PID] = @ + 1]
  /\ UNCHANGED <<order, utilVars, platform, proc, SIDECAR_STARTED, BACKEND_PORT,
                 SHUTDOWN_IN_PROGRESS, SIDECAR_CHILD, childLock, epc, exitPending,
                 launch, wpc, spawned, killCount, bodyRuns>>

\* BodySwap reading SIDECAR_PID and leaving it as it is
BodySwap_Load(t) ==
  /\ Up /\ body[t].pc = "swap"
  /\ body' = [body EXCEPT ![t].pid = SIDECAR_PID,
                          ![t].pc = IF SIDECAR_PID = 0 THEN "zero" ELSE "snapshot",
                          ![t].ops = Log(@, "swap"),
                          ![t].ign = /\ SIDECAR_PID # 0
                                     /\ proc[SIDECAR_PID].st = "run"
                                     /\ proc[SIDECAR_PID].kind = "ignore"]
  /\ taken' = IF SIDECAR_PID = 0 THEN taken ELSE [taken EXCEPT ![SIDECAR_PID] = @ + 1]
  /\ UNCHANGED <<order, utilVars, platform, proc, SIDECAR_STARTED, BACKEND_PORT, SIDECAR_PID,
                 SHUTDOWN_IN_PROGRESS, SIDECAR_CHILD, childLock, epc, exitPending,
                 launch, wpc, spawned, killCount, bodyRuns>>

\* let pid = SIDECAR_PID.swap(0)
BodySwap(t) ==
  /\ Up /\ body[t].pc = "swap"
  /\ body' = [body EXCEPT ![t].pid = SIDECAR_PID,
                          ![t].pc = IF SIDECAR_PID = 0 THEN "zero" ELSE "snapshot",
                          ![t].ops = Log(@, "swap"),
                          ![t].ign = /\ SIDECAR_PID # 0
                                     /\ proc[SIDECAR_PID].st = "run"
                                     /\ proc[SIDECAR_PID].kind = "ignore"]
  /\ SIDECAR_PID' = 0
  /\ taken' = IF SIDECAR_PID = 0 THEN taken ELSE [taken EXCEPT ![SIDECAR_PID] = @ + 1]
  /\ UNCHANGED <<order, utilVars, platform, proc, SIDECAR_STARTED, BACKEND_PORT,
                 SHUTDOWN_IN_PROGRESS, SIDECAR_CHILD, childLock, epc, exitPending,
                 launch, wpc, spawned, killCount, bodyRuns>>

\* BodyZero returning without force_kill_by_name()
BodyZero_NoSweep(t) ==
  /\ Up /\ body[t].pc = "zero"
  /\ SIDECAR_STARTED' = FALSE
  /\ body' = [body EXCEPT ![t].pc = "ret", ![t].ret = TRUE]
  /\ UNCHANGED <<order, taken, utilVars, platform, proc, BACKEND_PORT, SIDECAR_PID,
                 SHUTDOWN_IN_PROGRESS, SIDECAR_CHILD, childLock, epc, exitPending,
                 launch, wpc, spawned, killCount, bodyRuns>>

\* if pid == 0 { SIDECAR_STARTED.store(false); force_kill_by_name(); return true; }
BodyZero(t) ==
  /\ Up /\ body[t].pc = "zero"
  /\ SIDECAR_STARTED' = FALSE
  /\ proc' = force_kill_by_name(proc)
  /\ body' = [body EXCEPT ![t].pc = "ret", ![t].ret = TRUE,
                          ![t].ops = Log(@, "by_name")]
  /\ UNCHANGED <<order, taken, utilVars, platform, BACKEND_PORT, SIDECAR_PID,
                 SHUTDOWN_IN_PROGRESS, SIDECAR_CHILD, childLock, epc, exitPending,
                 launch, wpc, spawned, killCount, bodyRuns>>

\* let child_pids = get_child_pids(pid);
BodySnapshot(t) ==
  /\ Up /\ body[t].pc = "snapshot"
  /\ body' = [body EXCEPT ![t].snap = get_child_pids(proc, platform, body[t].pid),
                          ![t].pc = "check",
                          ![t].ops = Log(@, "snapshot")]
  /\ UNCHANGED <<order, taken, utilVars, platform, proc, SIDECAR_STARTED, BACKEND_PORT, SIDECAR_PID,
                 SHUTDOWN_IN_PROGRESS, SIDECAR_CHILD, childLock, epc, exitPending,
                 launch, wpc, spawned, killCount, bodyRuns>>

\* for child_pid in &child_pids { force_kill_process(*child_pid); }
RECURSIVE ForceKillEach(_, _)
ForceKillEach(P, S) ==
  IF S = {} THEN P
  ELSE LET c == CHOOSE x \in S : TRUE
       IN ForceKillEach(force_kill_process(P, c), S \ {c})

\* for child_pid in &child_pids { send_terminate_signal(*child_pid); }
RECURSIVE TerminateEach(_, _)
TerminateEach(P, S) ==
  IF S = {} THEN P
  ELSE LET c == CHOOSE x \in S : TRUE
       IN TerminateEach(send_terminate_signal(P, c), S \ {c})

\* BodyCheck returning true for an exited worker and leaving the snapshotted
\* children alone
BodyCheck_LeavesChildren(t) ==
  /\ Up /\ body[t].pc = "check"
  /\ IF ~is_process_running(proc, body[t].pid)
     THEN /\ SIDECAR_STARTED' = FALSE
          /\ body' = [body EXCEPT ![t].pc = "ret", ![t].ret = TRUE,
                                  ![t].ops = Log(Log(@, "exited"), "force_children")]
     ELSE /\ body' = [body EXCEPT ![t].pc = "take", ![t].ops = Log(@, "running")]
          /\ UNCHANGED SIDECAR_STARTED
  /\ UNCHANGED <<order, taken, utilVars, platform, proc, BACKEND_PORT, SIDECAR_PID,
                 SHUTDOWN_IN_PROGRESS, SIDECAR_CHILD, childLock, epc, exitPending,
                 launch, wpc, spawned, killCount, bodyRuns>>

\* if !is_process_running(pid) { force-kill the snapshotted children;
\*   SIDECAR_STARTED.store(false); return true; }
BodyCheck(t) ==
  /\ Up /\ body[t].pc = "check"
  /\ IF ~is_process_running(proc, body[t].pid)
     THEN /\ proc' = ForceKillEach(proc, body[t].snap)
          /\ SIDECAR_STARTED' = FALSE
          /\ body' = [body EXCEPT ![t].pc = "ret", ![t].ret = TRUE,
                                  ![t].ops = Log(Log(@, "exited"), "force_children")]
     ELSE /\ body' = [body EXCEPT ![t].pc = "take", ![t].ops = Log(@, "running")]
          /\ UNCHANGED <<proc, SIDECAR_STARTED>>
  /\ UNCHANGED <<order, taken, utilVars, platform, BACKEND_PORT, SIDECAR_PID,
                 SHUTDOWN_IN_PROGRESS, SIDECAR_CHILD, childLock, epc, exitPending,
                 launch, wpc, spawned, killCount, bodyRuns>>

\* BodyTake reading the handle and leaving it in SIDECAR_CHILD
BodyTake_Peek(t) ==
  /\ Up /\ body[t].pc = "take"
  /\ childLock = "free"
  /\ IF SIDECAR_CHILD # 0
     THEN /\ body' = [body EXCEPT ![t].h = SIDECAR_CHILD, ![t].pc = "kill"]
          /\ childLock' = t
     ELSE /\ body' = [body EXCEPT ![t].pc = "term"]
          /\ UNCHANGED childLock
  /\ UNCHANGED <<order, taken, utilVars, platform, proc, SIDECAR_STARTED, BACKEND_PORT, SIDECAR_PID,
                 SHUTDOWN_IN_PROGRESS, SIDECAR_CHILD, epc, exitPending,
                 launch, wpc, spawned, killCount, bodyRuns>>

\* if let Ok(mut guard) = SIDECAR_CHILD.lock() { if let Some(child) = guard.take() {
BodyTake(t) ==
  /\ Up /\ body[t].pc = "take"
  /\ childLock = "free"
  /\ IF SIDECAR_CHILD # 0
     THEN /\ body' = [body EXCEPT ![t].h = SIDECAR_CHILD, ![t].pc = "kill"]
          /\ SIDECAR_CHILD' = 0
          /\ childLock' = t
     ELSE /\ body' = [body EXCEPT ![t].pc = "term"]
          /\ UNCHANGED <<SIDECAR_CHILD, childLock>>
  /\ UNCHANGED <<order, taken, utilVars, platform, proc, SIDECAR_STARTED, BACKEND_PORT, SIDECAR_PID,
                 SHUTDOWN_IN_PROGRESS, epc, exitPending,
                 launch, wpc, spawned, killCount, bodyRuns>>

\* let _ = child.kill(); } }   CommandChild::kill ends the handle's process
\* (not its children) unconditionally; the guard is dropped after it
BodyKill(t) ==
  /\ Up /\ body[t].pc = "kill"
  /\ proc' = Kill(proc, {body[t].h})
  /\ killCount' = [killCount EXCEPT ![body[t].h] = @ + 1]
  /\ childLock' = "free"
  /\ body' = [body EXCEPT ![t].pc = "term", ![t].ops = Log(@, "handle_kill")]
  /\ UNCHANGED <<order, taken, utilVars, platform, SIDECAR_STARTED, BACKEND_PORT, SIDECAR_PID,
                 SHUTDOWN_IN_PROGRESS, SIDECAR_CHILD, epc, exitPending,
                 launch, wpc, spawned, bodyRuns>>

\* send_terminate_signal(pid);
\* for child_pid in &child_pids { send_terminate_signal(*child_pid); }
BodyTerm(t) ==
  /\ Up /\ body[t].pc = "term"
  /\ proc' = TerminateEach(send_terminate_signal(proc, body[t].pid), body[t].snap)
  /\ body' = [body EXCEPT ![t].pc = "poll", ![t].i = 0, ![t].ops = Log(@, "term")]
  /\ UNCHANGED <<order, taken, utilVars, platform, SIDECAR_STARTED, BACKEND_PORT, SIDECAR_PID,
                 SHUTDOWN_IN_PROGRESS, SIDECAR_CHILD, childLock, epc, exitPending,
                 launch, wpc, spawned, killCount, bodyRuns>>

\* the children the polls look at: child_pids.iter().filter(is_process_running)
PolledChildren(t) == body[t].snap

\* BodyPoll returning false once the graceful polls are used up, with no
\* forced kill
BodyPoll_GivesUp(t) ==
  /\ Up /\ body[t].pc = "poll"
  /\ IF ~is_process_running(proc, body[t].pid)
        /\ {c \in PolledChildren(t) : is_process_running(proc, c)} = {}
     THEN /\ SIDECAR_STARTED' = FALSE
          /\ body' = [body EXCEPT ![t].pc = "ret", ![t].ret = TRUE,
                                  ![t].i = @ + 1, ![t].ops = Log(@, "poll")]
     ELSE /\ body' = [body EXCEPT ![t].i = @ + 1,
                                  ![t].pc = IF body[t].i + 1 = max_checks
                                            THEN "ret" ELSE "poll",
                                  ![t].ret = FALSE,
                                  ![t].ops = Log(@, "poll")]
          /\ UNCHANGED SIDECAR_STARTED
  /\ UNCHANGED <<order, taken, utilVars, platform, proc, BACKEND_PORT, SIDECAR_PID,
                 SHUTDOWN_IN_PROGRESS, SIDECAR_CHILD, childLock, epc, exitPending,
                 launch, wpc, spawned, killCount, bodyRuns>>

\* BodyPoll going on to the forced kill after the first poll that finds
\* something running
BodyPoll_ForcesEarly(t) ==
  /\ Up /\ body[t].pc = "poll"
  /\ IF ~is_process_running(proc, body[t].pid)
        /\ {c \in PolledChildren(t) : is_process_running(proc, c)} = {}
     THEN /\ SIDECAR_STARTED' = FALSE
          /\ body' = [body EXCEPT ![t].pc = "ret", ![t].ret = TRUE,
                                  ![t].i = @ + 1, ![t].ops = Log(@, "poll")]
     ELSE /\ body' = [body EXCEPT ![t].i = @ + 1, ![t].pc = "force",
                                  ![t].ops = Log(@, "poll")]
          /\ UNCHANGED SIDECAR_STARTED
  /\ UNCHANGED <<order, taken, utilVars, platform, proc, BACKEND_PORT, SIDECAR_PID,
                 SHUTDOWN_IN_PROGRESS, SIDECAR_CHILD, childLock, epc, exitPending,
                 launch, wpc, spawned, killCount, bodyRuns>>

\* for i in 0..max_checks { sleep(100ms); if !parent_running &&
\*   children_running.is_empty() { SIDECAR_STARTED.store(false); return true; } }
BodyPoll(t) ==
  /\ Up /\ body[t].pc = "poll"
  /\ IF ~is_process_running(proc, body[t].pid)
        /\ {c \in PolledChildren(t) : is_process_running(proc, c)} = {}
     THEN /\ SIDECAR_STARTED' = FALSE
          /\ body' = [body EXCEPT ![t].pc = "ret", ![t].ret = TRUE,
                                  ![t].i = @ + 1, ![t].ops = Log(@, "poll")]
     ELSE /\ body' = [body EXCEPT ![t].i = @ + 1,
                                  ![t].pc = IF body[t].i + 1 = max_checks
                                            THEN "force" ELSE "poll",
                                  ![t].ops = Log(@, "poll")]
          /\ UNCHANGED SIDECAR_STARTED
  /\ UNCHANGED <<order, taken, utilVars, platform, proc, BACKEND_PORT, SIDECAR_PID,
                 SHUTDOWN_IN_PROGRESS, SIDECAR_CHILD, childLock, epc, exitPending,
                 launch, wpc, spawned, killCount, bodyRuns>>

\* for child_pid in &child_pids { force_kill_process(*child_pid); }
\* force_kill_process(pid);
BodyForce(t) ==
  /\ Up /\ body[t].pc = "force"
  /\ proc' = force_kill_process(ForceKillEach(proc, body[t].snap), body[t].pid)
  /\ body' = [body EXCEPT ![t].pc = "poll2", ![t].i = 0, ![t].ops = Log(@, "force")]
  /\ UNCHANGED <<order, taken, utilVars, platform, SIDECAR_STARTED, BACKEND_PORT, SIDECAR_PID,
                 SHUTDOWN_IN_PROGRESS, SIDECAR_CHILD, childLock, epc, exitPending,
                 launch, wpc, spawned, killCount, bodyRuns>>

\* for _ in 0..10 { sleep(100ms); if !any_running {
\*   SIDECAR_STARTED.store(false); return false; } }
BodyPoll2(t) ==
  /\ Up /\ body[t].pc = "poll2"
  /\ IF ~(is_process_running(proc, body[t].pid)
          \/ \E c \in body[t].snap : is_process_running(proc, c))
     THEN /\ SIDECAR_STARTED' = FALSE
          /\ body' = [body EXCEPT ![t].pc = "ret", ![t].ret = FALSE,
                                  ![t].i = @ + 1, ![t].ops = Log(@, "poll2")]
     ELSE /\ body' = [body EXCEPT ![t].i = @ + 1,
                                  ![t].pc = IF body[t].i + 1 = force_checks
                                            THEN "byname" ELSE "poll2",
                                  ![t].ops = Log(@, "poll2")]
          /\ UNCHANGED SIDECAR_STARTED
  /\ UNCHANGED <<order, taken, utilVars, platform, proc, BACKEND_PORT, SIDECAR_PID,
                 SHUTDOWN_IN_PROGRESS, SIDECAR_CHILD, childLock, epc, exitPending,
                 launch, wpc, spawned, killCount, bodyRuns>>

\* force_kill_by_name(); SIDECAR_STARTED.store(false); false
BodyByName(t) ==
  /\ Up /\ body[t].pc = "byname"
  /\ proc' = force_kill_by_name(proc)
  /\ SIDECAR_STARTED' = FALSE
  /\ body' = [body EXCEPT ![t].pc = "ret", ![t].ret = FALSE,
                          ![t].ops = Log(@, "by_name")]
  /\ UNCHANGED <<order, taken, utilVars, platform, BACKEND_PORT, SIDECAR_PID,
                 SHUTDOWN_IN_PROGRESS, SIDECAR_CHILD, childLock, epc, exitPending,
                 launch, wpc, spawned, killCount, bodyRuns>>

(* ------------------------------------------------------------------ *)
(* The run-event handlers (all run on the event-loop thread)           *)
(* ------------------------------------------------------------------ *)
\* RunEvent::WindowEvent { CloseRequested }:
\* if SHUTDOWN_IN_PROGRESS.swap(true) { return; }
\* api.prevent_close(); shutdown_sidecar_graceful(); ...
CloseRequested ==
  /\ epc = "loop"
  /\ SHUTDOWN_IN_PROGRESS' = TRUE
  /\ IF SHUTDOWN_IN_PROGRESS
     THEN UNCHANGED <<epc, body, bodyRuns>>
     ELSE /\ epc' = "handler"
          /\ body' = [body EXCEPT !["ev"] = [BodyIdle EXCEPT !.pc = "swap"]]
          /\ bodyRuns' = bodyRuns + 1
  /\ UNCHANGED <<order, taken, utilVars, platform, proc, SIDECAR_STARTED, BACKEND_PORT, SIDECAR_PID,
                 SIDECAR_CHILD, childLock, exitPending,
                 launch, wpc, spawned, killCount>>

\* RunEvent::ExitRequested:
\* if SHUTDOWN_IN_PROGRESS.load() { return; }   (the exit then goes ahead)
\* SHUTDOWN_IN_PROGRESS.store(true); api.prevent_exit();
\* shutdown_sidecar_graceful(); ...
ExitRequested ==
  /\ epc = "loop"
  /\ IF SHUTDOWN_IN_PROGRESS
     THEN /\ epc' = "exit"
          /\ UNCHANGED <<SHUTDOWN_IN_PROGRESS, body, bodyRuns>>
     ELSE /\ SHUTDOWN_IN_PROGRESS' = TRUE
          /\ epc' = "handler"
          /\ body' = [body EXCEPT !["ev"] = [BodyIdle EXCEPT !.pc = "swap"]]
          /\ bodyRuns' = bodyRuns + 1
  /\ UNCHANGED <<order, taken, utilVars, platform, proc, SIDECAR_STARTED, BACKEND_PORT, SIDECAR_PID,
                 SIDECAR_CHILD, childLock, exitPending,
                 launch, wpc, spawned, killCount>>

\* shutdown_sidecar_graceful() has returned into the CloseRequested or
\* ExitRequested handler: app_handle.exit(0), and the handler returns
HandlerDone ==
  /\ epc = "handler" /\ body["ev"].pc = "ret"
  /\ body' = [body EXCEPT !["ev"] = BodyIdle]
  /\ exitPending' = TRUE
  /\ epc' = "loop"
  /\ UNCHANGED <<order, taken, utilVars, platform, proc, SIDECAR_STARTED, BACKEND_PORT, SIDECAR_PID,
                 SHUTDOWN_IN_PROGRESS, SIDECAR_CHILD, childLock,
                 launch, wpc, spawned, killCount, bodyRuns>>

\* RunEvent::Exit: let pid = SIDECAR_PID.load(); if pid != 0 {
\*   kill_child_processes(pid); force_kill_process(pid); }
\* after which the process ends (and every thread and task with it)
ExitEvent ==
  /\ epc = "exit"
  /\ proc' = IF SIDECAR_PID # 0
             THEN force_kill_process(kill_child_processes(proc, platform, SIDECAR_PID),
                                     SIDECAR_PID)
             ELSE proc
  /\ epc' = "terminated"
  /\ UNCHANGED <<order, taken, utilVars, platform, SIDECAR_STARTED, BACKEND_PORT, SIDECAR_PID,
                 SHUTDOWN_IN_PROGRESS, SIDECAR_CHILD, childLock, exitPending,
                 launch, body, wpc, spawned, killCount, bodyRuns>>

(* ------------------------------------------------------------------ *)
(* The specification                                                   *)
(* ------------------------------------------------------------------ *)
\* the steps of start_sidecar, of the exit watchers, of the shutdown body and
\* of the processes
Background ==
  \/ StartCheck \/ StartReap \/ StartStage \/ Spawn
  \/ StorePid \/ StoreChild \/ StoreStarted \/ Health
  \/ TimeoutCheck \/ TimeoutBodyDone \/ TimeoutStore \/ TimeoutClear
  \/ \E n \in WorkerPids : WatcherStarted(n) \/ WatcherPid(n)
  \/ \E p \in AllPids : ProcExit(p)
  \/ \E t \in Threads :
       \/ BodySwap(t) \/ BodyZero(t) \/ BodySnapshot(t) \/ BodyCheck(t)
       \/ BodyTake(t) \/ BodyKill(t) \/ BodyTerm(t) \/ BodyPoll(t)
       \/ BodyForce(t) \/ BodyPoll2(t) \/ BodyByName(t)

\* The program: start_sidecar is called once, from setup()
Next ==
  \/ MainCleanup \/ MainPort \/ MainSetup
  \/ CloseRequested \/ ExitRequested \/ HandlerDone \/ ExitEvent
  \/ Background

Spec == Init /\ [][Next]_vars

\* start_sidecar called again after it has returned Ok, up to MaxLaunch calls,
\* while no shutdown is triggered from the event loop
NextLaunch ==
  \/ MainCleanup \/ MainPort \/ MainSetup
  \/ CallStart
  \/ Background

SpecLaunch == Init /\ [][NextLaunch]_vars

(* ------------------------------------------------------------------ *)
(* Shutdown coordination                                               *)
(* ------------------------------------------------------------------ *)
\* C1: whatever triggers arrive (window close request, exit request, the
\* health-gate timeout cleanup of start_sidecar), shutdown_sidecar_graceful is
\* executed at most once in the lifetime of the process.
C1_BodyRunsOnce == bodyRuns <= 1

\* C2: whenever shutdown_sidecar_graceful returns, on any of its exit paths,
\* SIDECAR_STARTED is false, SIDECAR_PID is 0 and SIDECAR_CHILD holds no handle.
C2_ClearedOnReturn ==
  \A t \in Threads :
    body[t].pc = "ret" =>
      /\ ~SIDECAR_STARTED
      /\ SIDECAR_PID = 0
      /\ SIDECAR_CHILD = 0

\* C3: a worker that is running when the shutdown body starts and ignores the
\* graceful signal is terminated by the body, which returns false (forced)
\* after all max_checks polls of the graceful wait, with or without a handle
\* in SIDECAR_CHILD.
C3_IgnoringWorkerForced ==
  \A t \in Threads :
    (body[t].pc = "ret" /\ body[t].ign) =>
      /\ ~is_process_running(proc, body[t].pid)
      /\ body[t].ret = FALSE
      /\ \E k \in 1..Len(body[t].ops) : body[t].ops[k] = "force"

\* C4: a direct child of the worker that is live when the shutdown body starts
\* with a non-zero PID is not running when the body returns.  (The children
\* are forked when the worker is spawned, before its PID is stored, and a
\* forced kill of a known child PID is effective: so a child running at the
\* return was live at the start.)
C4_ChildrenGoneOnReturn ==
  \A t \in Threads :
    (body[t].pc = "ret" /\ body[t].pid # 0) =>
      \A c \in ChildPids : Parent(c) = body[t].pid => ~is_process_running(proc, c)

\* C5: in an execution of the shutdown body with a non-zero PID the one
\* get_child_pids snapshot precedes every termination action (handle kill,
\* graceful signal, forced kill, kill by name), is never taken again or
\* changed, and is the set of children the polls look at.
C5_SnapshotBeforeSignals ==
  [][\A t \in Threads :
       LET b == body'[t]
           snaps(r) == {k \in 1..Len(r.ops) : r.ops[k] = "snapshot"}
       IN /\ b.pid # 0 =>
               \A k \in 1..Len(b.ops) :
                 b.ops[k] \in {"handle_kill", "term", "force_children", "force", "by_name"}
                   => \E j \in 1..(k - 1) : b.ops[j] = "snapshot"
          /\ Cardinality(snaps(b)) <= 1
          /\ (snaps(body[t]) # {} /\ snaps(b) # {}) => b.snap = body[t].snap
          /\ PolledChildren(t) = body[t].snap]_vars

C5_Witness ==
  \E t \in Threads :
    /\ body[t].pc = "ret" /\ body[t].pid # 0 /\ body[t].snap # {}
    /\ \E k \in 1..Len(body[t].ops) : body[t].ops[k] = "force"

(* ------------------------------------------------------------------ *)
(* Health gate                                                         *)
(* ------------------------------------------------------------------ *)
\* C6: once health_attempts probes have failed, start_sidecar is on its
\* timeout path, which it leaves only by returning the timeout error, and at
\* that return SIDECAR_PID is 0 and SIDECAR_STARTED is false.
C6_TimeoutCleansUp ==
  [][LET path == {"timeout", "body", "tstore", "tclear"}
     IN /\ launch'.attempt = health_attempts => launch'.pc \in path
        /\ (launch.pc \in path /\ launch'.pc \notin path) =>
              /\ launch'.pc = "idle" /\ launch'.ret = "timeout"
              /\ SIDECAR_PID' = 0
              /\ ~SIDECAR_STARTED']_vars

\* the timeout error returned after the only execution of the shutdown body,
\* the one start_sidecar called, has ended the worker
C6_Witness ==
  /\ launch.pc = "idle" /\ launch.ret = "timeout"
  /\ bodyRuns = 1 /\ ~SHUTDOWN_IN_PROGRESS
  /\ spawned = 1 /\ wpc[1] = "wait" /\ ~is_process_running(proc, 1)

(* ------------------------------------------------------------------ *)
(* Shutdown body: PID 0, the process handle                            *)
(* ------------------------------------------------------------------ *)
\* C7: a shutdown body that finds SIDECAR_PID 0 does the kill-by-name sweep
\* and nothing else to any process (no PID-directed signal), and returns true.
C7_ZeroPidSweeps ==
  [][\A t \in Threads :
       (body[t].pc = "zero" /\ body'[t].pc = "ret") =>
         /\ proc' = force_kill_by_name(proc)
         /\ body'[t].ops = <<"swap", "by_name">>
         /\ body'[t].ret = TRUE]_vars

C7_Witness ==
  \E t \in Threads :
    /\ body[t].pc = "ret" /\ body[t].pid = 0 /\ body[t].ret = TRUE
    /\ spawned = 1 /\ Named(proc) = {}

\* C8: when CommandChild::kill is about to be invoked on a taken handle,
\* SIDECAR_CHILD no longer holds it, and the kill of any one handle is invoked
\* at most once, over all threads and all executions of the shutdown body.
C8_HandleKilledOnce ==
  /\ \A t \in Threads : body[t].pc = "kill" => SIDECAR_CHILD = 0
  /\ \A n \in WorkerPids : killCount[n] <= 1

C8_Witness ==
  \E t \in Threads :
    /\ body[t].h # 0 /\ killCount[body[t].h] = 1 /\ SIDECAR_CHILD = 0

(* ------------------------------------------------------------------ *)
(* Launch                                                              *)
(* ------------------------------------------------------------------ *)
\* C9: start_sidecar called while SIDECAR_STARTED is true returns Ok at once:
\* no spawn, no cleanup_leftover_processes (no process is touched), and
\* SIDECAR_PID and BACKEND_PORT are left as they are.
C9_LaunchIdempotent ==
  [][(launch.pc = "check" /\ SIDECAR_STARTED /\ launch'.pc # "check") =>
       /\ launch' = Return("ok")
       /\ spawned' = spawned
       /\ proc' = proc
       /\ SIDECAR_PID' = SIDECAR_PID
       /\ BACKEND_PORT' = BACKEND_PORT]_vars

\* a second call has returned Ok with the first call's worker still the only
\* one spawned and still recorded
C9_Witness ==
  /\ launch.n = 2 /\ launch.pc = "idle" /\ launch.ret = "ok"
  /\ spawned = 1 /\ SIDECAR_STARTED /\ SIDECAR_PID = 1 /\ BACKEND_PORT = launch.port

\* C10 (as amended): when setup_sidecar_bundle fails, for whatever reason,
\* start_sidecar goes on to the default sidecar spawn with the argument vector
\* it built; if that spawn succeeds the new worker's PID is stored in
\* SIDECAR_PID, and if it fails start_sidecar returns the spawn's error.
C10_StageFailureFallsBack ==
  [][/\ (launch.pc = "stage" /\ launch'.pc # "stage") =>
          /\ launch'.pc = "spawn"
          /\ launch'.mode \in {"staged", "sidecar"}
     /\ (launch.pc = "spawn" /\ launch.mode = "sidecar" /\ launch'.pc # "spawn") =>
          \/ launch' = Return("spawn_err")
          \/ /\ launch'.pc = "storepid" /\ launch'.mode = "sidecar"
             /\ launch'.passed = launch.args
             /\ launch'.pid = spawned' /\ spawned' = spawned + 1
             /\ is_process_running(proc', launch'.pid)
     /\ (launch.pc = "storepid" /\ launch'.pc # "storepid") =>
          SIDECAR_PID' = launch.pid]_vars

\* the fallback has spawned a worker with the directory flags among its
\* arguments and recorded its PID and its handle
C10_Witness ==
  /\ launch.pc = "storestarted" /\ launch.mode = "sidecar"
  /\ Len(launch.passed) = 8
  /\ SIDECAR_PID = launch.pid /\ SIDECAR_CHILD = launch.pid

\* C10 (as stated): when setup_sidecar_bundle fails the launch does not fail:
\* the default sidecar spawn yields a worker whose PID is then recorded.
C10_StageFailureNeverFails ==
  [][(launch.pc = "spawn" /\ launch.mode = "sidecar" /\ launch'.pc # "spawn") =>
       launch'.pc = "storepid"]_vars

(* ------------------------------------------------------------------ *)
(* The artifact stager: setup_sidecar_bundle                           *)
(* ------------------------------------------------------------------ *)
\* builds of the application that get installed, one after the other
MaxBuild == 2
\* lengths the sidecar executable of a build can have
MaxSize == 2

Builds == 1..MaxBuild
Sizes == 1..MaxSize
\* path.exists() of a file
Exists(f) == f.build # 0
\* std::fs::metadata(path).map(|m| m.len()).unwrap_or(0)
FileLen(f) == IF Exists(f) THEN f.size ELSE 0
\* what a std::fs::copy that fails part-way leaves at the destination
Truncated(f) == [build |-> f.build, size |-> 0]

\* the `?` operators of setup_sidecar_bundle: the step whose Err is returned
StageFaults == {"none", "current_exe", "create_dir_all", "copy", "set_permissions",
                "remove_dir_all", "copy_dir_recursive", "set_dylib_permissions"}

\* let needs_extraction = if extracted_exe.exists() && extracted_internal.exists()
\*   { src_size != dst_size } else { true }
needs_extraction(D) ==
  IF Exists(D.extracted_exe) /\ D.extracted_internal # 0
  THEN FileLen(D.sidecar_src) # FileLen(D.extracted_exe)
  ELSE TRUE

\* setup_sidecar_bundle on disk D of a build for platform plat, when the
\* step f fails (part: the failing step had written or removed something
\* already): the result, the file operations performed and the disk it leaves
setup_sidecar_bundle(D, plat, f, part) ==
  LET Ret(r, ops, D2) == [ret |-> r, ops |-> ops, pre |-> D, post |-> D2]
      copied == [D EXCEPT !.extracted_exe = D.sidecar_src]
      removed == [copied EXCEPT !.extracted_internal = 0]
      staged == [copied EXCEPT !.extracted_internal = D.internal_src]
      half(D2) == [D2 EXCEPT !.extracted_internal = Partial]
      o1 == <<"create_dir_all">>
      o2 == Append(o1, "copy")
      o3 == IF plat = "unix" THEN Append(o2, "set_permissions") ELSE o2
      o4 == IF D.extracted_internal # 0 THEN Append(o3, "remove_dir_all") ELSE o3
      o5 == Append(o4, "copy_dir_recursive")
      o6 == IF plat = "unix" THEN Append(o5, "set_dylib_permissions") ELSE o5
  IN IF D.internal_src = 0 THEN Ret("dev", <<>>, D)
     ELSE IF f = "current_exe" THEN Ret("env", <<>>, D)
     ELSE IF ~needs_extraction(D) THEN Ret("ok", <<>>, D)
     ELSE IF ~Exists(D.sidecar_src) THEN Ret("missing", <<>>, D)
     ELSE IF f = "create_dir_all" THEN Ret("copy", o1, D)
     ELSE IF f = "copy"
       THEN Ret("copy", o2, IF part THEN [D EXCEPT !.extracted_exe = Truncated(D.sidecar_src)]
                            ELSE D)
     ELSE IF plat = "unix" /\ f = "set_permissions" THEN Ret("perm", o3, copied)
     ELSE IF D.extracted_internal # 0 /\ f = "remove_dir_all"
       THEN Ret("copy", o4, IF part THEN half(copied) ELSE copied)
     ELSE IF f = "copy_dir_recursive"
       THEN Ret("copy", o5, IF part THEN half(copied) ELSE removed)
     ELSE IF plat = "unix" /\ f = "set_dylib_permissions" THEN Ret("perm", o6, half(copied))
     ELSE Ret("ok", o6, staged)

\* a launch calls setup_sidecar_bundle
StageCall ==
  /\ \E f \in StageFaults, part \in BOOLEAN :
       /\ stager' = setup_sidecar_bundle(disk, platform, f, part)
       /\ disk' = stager'.post
  /\ UNCHANGED <<platform, proc, SIDECAR_STARTED, BACKEND_PORT, SIDECAR_PID,
                 SHUTDOWN_IN_PROGRESS, SIDECAR_CHILD, childLock, epc, exitPending,
                 launch, body, wpc, spawned, killCount, bodyRuns, order, taken,
                 alloc, gate, reap, dl, nav>>

\* between two launches the application is updated: the next build is installed
Install ==
  /\ disk.internal_src \in 1..(MaxBuild - 1)
  /\ \E sz \in Sizes :
       disk' = [disk EXCEPT !.internal_src = @ + 1,
                            !.sidecar_src = [build |-> disk.internal_src + 1, size |-> sz]]
  /\ UNCHANGED <<platform, proc, SIDECAR_STARTED, BACKEND_PORT, SIDECAR_PID,
                 SHUTDOWN_IN_PROGRESS, SIDECAR_CHILD, childLock, epc, exitPending,
                 launch, body, wpc, spawned, killCount, bodyRuns, order, taken,
                 stager, alloc, gate, reap, dl, nav>>

\* the supervisor before main() has run
Quiet ==
  /\ proc = [p \in AllPids |-> NoProc]
  /\ SIDECAR_STARTED = FALSE /\ BACKEND_PORT = 0 /\ SIDECAR_PID = 0
  /\ SHUTDOWN_IN_PROGRESS = FALSE /\ SIDECAR_CHILD = 0 /\ childLock = "free"
  /\ epc = "main_cleanup" /\ exitPending = FALSE
  /\ launch = LaunchIdle /\ body = [t \in Threads |-> BodyIdle]
  /\ wpc = [n \in WorkerPids |-> "none"] /\ spawned = 0
  /\ killCount = [n \in WorkerPids |-> 0] /\ bodyRuns = 0 /\ order = <<>>
  /\ taken = [n \in WorkerPids |-> 0]

\* a fresh installation of build 1: the cache is empty; without _internal in
\* the resources (development mode), or packaged, the sidecar executable
\* present or not
InitStage ==
  /\ platform \in {"unix", "windows"}
  /\ Quiet
  /\ \E packaged \in BOOLEAN, exe \in {NoFile} \cup {[build |-> 1, size |-> sz] : sz \in Sizes} :
       disk = [NoDisk EXCEPT !.internal_src = IF packaged THEN 1 ELSE 0,
                             !.sidecar_src = exe]
  /\ stager = StagerIdle /\ alloc = AllocIdle /\ gate = GateIdle /\ reap = ReapIdle /\ dl = DlIdle /\ nav = NavIdle

NextStage == StageCall \/ Install

SpecStage == InitStage /\ [][NextStage]_vars

\* C11: once the source executable's size differs from the cached one's, the
\* path of the new executable is returned for use only with the cached
\* support directory replaced by a copy of the source support directory:
\* whenever setup_sidecar_bundle returns Ok and the cached executable is the
\* copy of the source executable, the cached _internal is the complete copy
\* of the source _internal.
C11_ReplacedBeforeUse ==
  (stager.ret = "ok" /\ stager.post.extracted_exe = stager.post.sidecar_src)
    => stager.post.extracted_internal = stager.post.internal_src

(* ------------------------------------------------------------------ *)
(* Order of reaping, port allocation and launch                        *)
(* ------------------------------------------------------------------ *)
\* positions of the event e in the log
At(e) == {i \in 1..Len(order) : order[i] = e}

\* C12: the reaper runs once before the port is allocated (the log starts
\* with one reaper call, followed by the only port allocation), and every
\* spawn of a worker comes after the port allocation and directly after a
\* reaper call of its own.
C12_ReaperRuns ==
  /\ Len(order) >= 1 => order[1] = "reap"
  /\ At("port") \subseteq {2}
  /\ \A i \in At("spawn") : i > 2 /\ order[i - 1] = "reap"

\* two workers have been spawned, by two calls of start_sidecar
C12_Witness ==
  /\ order = <<"reap", "port", "reap", "spawn", "reap", "spawn">>
  /\ spawned = 2 /\ launch.n = 2

\* C13 (as amended): a reaper call precedes the port allocation, the port
\* allocation precedes every spawn, and between the port allocation and each
\* spawn there is again a reaper call.
C13_ReapPortReapLaunch ==
  /\ \A i \in At("port") : \E j \in At("reap") : j < i
  /\ \A i \in At("spawn") :
       \E j \in At("port") : j < i /\ \E k \in At("reap") : j < k /\ k < i

\* the first worker has been spawned
C13_Witness ==
  /\ order = <<"reap", "port", "reap", "spawn">>
  /\ launch.pc = "storepid" /\ is_process_running(proc, 1)

\* C13 (as stated): no call of the reaper precedes the port allocation, and
\* a reaper call precedes every spawn.
C13_PortBeforeAnyReaping ==
  /\ \A i \in At("reap") : \E j \in At("port") : j < i
  /\ \A i \in At("spawn") : \E k \in At("reap") : k < i

(* ------------------------------------------------------------------ *)
(* The port allocator: get_available_port                              *)
(* ------------------------------------------------------------------ *)
\* loopback ports of the machine
MaxPort == 2
Ports == 1..MaxPort
\* for attempt in 1..=10
port_attempts == 10

\* the end of one iteration of the for loop: the next attempt, or the fallback
NextAttempt(a) ==
  IF a.attempt < port_attempts THEN [a EXCEPT !.pc = "pick", !.attempt = @ + 1, !.hint = 0]
  ELSE [a EXCEPT !.pc = "fallback", !.hint = 0]

AllocUnchanged ==
  UNCHANGED <<platform, proc, SIDECAR_STARTED, BACKEND_PORT, SIDECAR_PID,
              SHUTDOWN_IN_PROGRESS, SIDECAR_CHILD, childLock, epc, exitPending,
              launch, body, wpc, spawned, killCount, bodyRuns, order, taken,
              disk, stager, gate, reap, dl, nav>>

\* another process binds or releases a loopback port
PortChange ==
  /\ \E p \in Ports :
       alloc' = [alloc EXCEPT !.busy = IF p \in @ THEN @ \ {p} ELSE @ \cup {p}]
  /\ AllocUnchanged

\* main() calls get_available_port()
AllocCall ==
  /\ alloc.pc = "idle"
  /\ alloc' = [alloc EXCEPT !.pc = "pick", !.attempt = 1]
  /\ AllocUnchanged

\* if let Some(port) = portpicker::pick_unused_port(): a port that was free
\* when portpicker looked, or None (then the iteration ends)
AllocPick ==
  /\ alloc.pc = "pick"
  /\ \/ alloc' = NextAttempt(alloc)
     \/ \E port \in Ports \ alloc.busy :
          alloc' = [alloc EXCEPT !.pc = "bind", !.hint = port]
  /\ AllocUnchanged

\* the hinted port returned as portpicker suggested it
AllocBind_Unverified ==
  /\ alloc.pc = "bind"
  /\ alloc' = [alloc EXCEPT !.pc = "ret", !.ret = alloc.hint, !.via = "hint"]
  /\ AllocUnchanged

\* match TcpListener::bind(format!("127.0.0.1:{}", port)):
\* Ok(listener) => { drop(listener); return port }   Err(e) => continue
AllocBind ==
  /\ alloc.pc = "bind"
  /\ alloc' = IF alloc.hint \notin alloc.busy
              THEN [alloc EXCEPT !.pc = "ret", !.ret = alloc.hint, !.via = "hint"]
              ELSE NextAttempt([alloc EXCEPT !.fails = @ + 1])
  /\ AllocUnchanged

\* the fallback taken as soon as one attempt has failed
AllocFallback_Early ==
  /\ alloc.pc \in {"pick", "fallback"} /\ (alloc.pc = "pick" => alloc.attempt > 1)
  /\ \/ \E port \in Ports \ alloc.busy :
          alloc' = [alloc EXCEPT !.pc = "ret", !.ret = port, !.via = "os"]
     \/ alloc' = [alloc EXCEPT !.pc = "panic"]
  /\ AllocUnchanged

\* TcpListener::bind("127.0.0.1:0").expect("Failed to bind to any port");
\* listener.local_addr().unwrap().port(); drop(listener)
\* the operating system assigns a free port, or the bind fails and main() panics
AllocFallback ==
  /\ alloc.pc = "fallback"
  /\ \/ \E port \in Ports \ alloc.busy :
          alloc' = [alloc EXCEPT !.pc = "ret", !.ret = port, !.via = "os"]
     \/ alloc' = [alloc EXCEPT !.pc = "panic"]
  /\ AllocUnchanged

AllocStep == AllocCall \/ AllocPick \/ AllocBind \/ AllocFallback

\* get_available_port has no platform-specific code
InitPort ==
  /\ platform = "unix"
  /\ Quiet
  /\ \E b \in SUBSET Ports : alloc = [AllocIdle EXCEPT !.busy = b]
  /\ disk = NoDisk /\ stager = StagerIdle /\ gate = GateIdle /\ reap = ReapIdle /\ dl = DlIdle /\ nav = NavIdle

NextPort == AllocStep \/ PortChange

SpecPort == InitPort /\ [][NextPort]_vars

\* the allocator's steps are the straight-line code of main(): they are taken
SpecPortFair == SpecPort /\ WF_vars(AllocStep)

\* C14: every port get_available_port returns, via the hint and via the
\* operating system alike, is one its own bind of that step succeeded on: the
\* port was held by no other process when the allocator bound it; a hinted
\* port whose bind fails is not returned.
C14_ReturnedPortWasBound ==
  [][(alloc'.pc = "ret" /\ alloc.pc # "ret")
       => /\ alloc'.ret \in Ports \ alloc.busy
          /\ alloc.pc = "bind" => (alloc'.ret = alloc.hint /\ alloc'.via = "hint")
          /\ alloc.pc # "bind" => (alloc.pc = "fallback" /\ alloc'.via = "os")]_vars

\* a hinted port has been returned after an earlier suggestion of portpicker
\* had been taken by another process before the verification bind
C14_Witness ==
  /\ alloc.pc = "ret" /\ alloc.via = "hint" /\ alloc.fails >= 1
  /\ alloc.ret \notin alloc.busy

\* a step of get_available_port itself
AllocMoves == alloc' # alloc /\ alloc'.busy = alloc.busy

\* C19: get_available_port makes at most 10 hinted attempts, one with no
\* hint or with a failed verification bind counting as one; an attempt whose
\* verification bind succeeds returns its port at once; the port-0 bind is
\* reached only from the 10th attempt having failed; and the call ends, with
\* a port or with the panic of the failed port-0 bind.
C19_TenAttemptsThenFallback ==
  /\ [][AllocMoves =>
          /\ alloc'.attempt \in 1..port_attempts
          /\ alloc'.attempt \in {alloc.attempt, alloc.attempt + 1}
          /\ alloc'.attempt = alloc.attempt + 1
               => (alloc.pc = "idle" \/ alloc.pc = "pick"
                     \/ (alloc.pc = "bind" /\ alloc.hint \in alloc.busy))
          /\ (alloc.pc = "bind" /\ alloc.hint \notin alloc.busy)
               => (alloc'.pc = "ret" /\ alloc'.ret = alloc.hint)
          /\ alloc'.pc = "fallback"
               => (alloc.attempt = port_attempts
                     /\ (alloc.pc = "pick" \/ (alloc.pc = "bind" /\ alloc.hint \in alloc.busy)))
          /\ alloc'.via = "os" => alloc.pc = "fallback"
          /\ alloc'.pc = "panic" => alloc.pc = "fallback"]_vars
  /\ <>(alloc.pc \in {"ret", "panic"})

\* the operating system has assigned the port, after ten attempts of which
\* some had no hint and some a failed verification bind
C19_Witness ==
  /\ alloc.pc = "ret" /\ alloc.via = "os" /\ alloc.attempt = port_attempts
  /\ alloc.fails \in 1..(port_attempts - 1)

(* ------------------------------------------------------------------ *)
(* Termination of the shutdown body                                    *)
(* ------------------------------------------------------------------ *)
\* a step of shutdown_sidecar_graceful as run by thread t
BodyStep(t) ==
  \/ BodySwap(t) \/ BodyZero(t) \/ BodySnapshot(t) \/ BodyCheck(t)
  \/ BodyTake(t) \/ BodyKill(t) \/ BodyTerm(t) \/ BodyPoll(t)
  \/ BodyForce(t) \/ BodyPoll2(t) \/ BodyByName(t)

\* the threads running the body are scheduled: the body is straight-line
\* code, its sleeps are finite and the SIDECAR_CHILD mutex is released by
\* whoever holds it
SpecBodyFair == SpecLaunch /\ \A t \in Threads : WF_vars(BodyStep(t))

\* the paths through shutdown_sidecar_graceful, as the kinds of step taken
BodyPaths ==
  LET head == <<"swap", "snapshot", "running">>
      sig(k) == head \o k \o <<"term", "poll">>
      kills == {<<>>, <<"handle_kill">>}
  IN {<<"swap", "by_name">>, <<"swap", "snapshot", "exited", "force_children">>}
       \cup {sig(k) : k \in kills}
       \cup {sig(k) \o <<"force", "poll2">> : k \in kills}
       \cup {sig(k) \o <<"force", "poll2", "by_name">> : k \in kills}

\* C15: the shutdown body always ends with a return of a boolean: started, it
\* reaches its return (unless the application process ends first); it polls at
\* most 50 times in the graceful phase and at most 10 times in the forced
\* phase; and the steps it has taken at the return form one of the escalation
\* paths, each phase that did not end the processes followed by the next one.
C15_BodyTerminates ==
  /\ [](\A t \in Threads :
          /\ body[t].pc \in {"poll", "force"} => body[t].i <= max_checks
          /\ body[t].pc = "poll" => body[t].i < max_checks
          /\ body[t].pc \in {"poll2", "byname"} => body[t].i <= force_checks
          /\ body[t].pc = "poll2" => body[t].i < force_checks
          /\ body[t].pc = "ret" =>
               /\ body[t].ops \in BodyPaths
               /\ body[t].ret \in BOOLEAN
               /\ body[t].ret = (body[t].ops[Len(body[t].ops)] \in {"poll", "force_children"}
                                   \/ Len(body[t].ops) = 2))
  /\ \A t \in Threads : (body[t].pc = "swap") ~> (body[t].pc = "ret" \/ ~Up)

\* the body has gone through every phase: 50 graceful polls, the forced
\* kill, 10 more polls and the kill by name, and has returned false
C15_Witness ==
  \E t \in Threads :
    /\ body[t].pc = "ret" /\ body[t].ret = FALSE
    /\ body[t].ops = <<"swap", "snapshot", "running", "handle_kill", "term", "poll",
                       "force", "poll2", "by_name">>

(* ------------------------------------------------------------------ *)
(* The health gate: the polling loop of start_sidecar                  *)
(* ------------------------------------------------------------------ *)
\* what answers on http://127.0.0.1:{port}/api/health: nothing (the
\* connection fails), a server answering with an error status, or the
\* backend answering with a success status
ServerStates == {"down", "error", "ready"}

\* client.get(&health_url).send().await
Response(srv) ==
  IF srv = "down" THEN "Err" ELSE IF srv = "error" THEN "Ok(500)" ELSE "Ok(200)"

\* any response at all counted as ready
Ready_AnyResponse(r) == r # "Err"

\* Ok(response) if response.status().is_success()
Ready(r) == r = "Ok(200)"

GateUnchanged ==
  UNCHANGED <<platform, proc, SIDECAR_STARTED, BACKEND_PORT, SIDECAR_PID,
              SHUTDOWN_IN_PROGRESS, SIDECAR_CHILD, childLock, epc, exitPending,
              launch, body, wpc, spawned, killCount, bodyRuns, order, taken,
              disk, stager, alloc, reap, dl, nav>>

\* the worker starts listening, fails, recovers or goes away
ServerChange ==
  /\ \E v \in ServerStates \ {gate.srv} : gate' = [gate EXCEPT !.srv = v]
  /\ GateUnchanged

\* start_sidecar reaches the loop: for attempt in 1..=60
GateStart ==
  /\ gate.pc = "idle"
  /\ gate' = [gate EXCEPT !.pc = "probe", !.attempt = 1]
  /\ GateUnchanged

\* match client.get(&health_url).send().await {
\*   Ok(response) if response.status().is_success() => return Ok(()),
\*   _ => sleep(500ms) }      and, the loop over, the timeout
GateProbe ==
  /\ gate.pc = "probe"
  /\ gate' = IF Ready(Response(gate.srv))
             THEN [gate EXCEPT !.pc = "ret", !.ret = "ok", !.probes = @ + 1]
             ELSE IF gate.attempt < health_attempts
             THEN [gate EXCEPT !.attempt = @ + 1, !.probes = @ + 1]
             ELSE [gate EXCEPT !.pc = "ret", !.ret = "timeout", !.probes = @ + 1]
  /\ GateUnchanged

GateStep == GateStart \/ GateProbe

\* the loop has no platform-specific code
InitHealth ==
  /\ platform = "unix"
  /\ Quiet
  /\ \E v \in ServerStates : gate = [GateIdle EXCEPT !.srv = v]
  /\ disk = NoDisk /\ stager = StagerIdle /\ alloc = AllocIdle /\ reap = ReapIdle /\ dl = DlIdle /\ nav = NavIdle

NextHealth == GateStep \/ ServerChange

SpecHealth == InitHealth /\ [][NextHealth]_vars

\* the requests time out and the sleeps are finite: the loop goes on
SpecHealthFair == SpecHealth /\ WF_vars(GateStep)

C17_OnePort ==
  /\ [](get_backend_port = 0 <=> epc \in {"main_cleanup", "main_port"})
  /\ [][BACKEND_PORT' # BACKEND_PORT =>
          /\ BACKEND_PORT = 0 /\ BACKEND_PORT' \in PortValues
          /\ launch.n = 0 /\ spawned = 0]_vars
  /\ [](launch.n > 0 =>
          /\ get_backend_port # 0 /\ launch.port = get_backend_port
          /\ launch.args # <<>> =>
               (launch.args[1] = "--port" /\ launch.args[2] = ToString(get_backend_port))
          /\ launch.passed # <<>> =>
               (launch.passed[1] = "--port" /\ launch.passed[2] = ToString(get_backend_port))
          /\ launch.pc = "health" => health_url(launch.port) = health_url(get_backend_port))

\* the second call of start_sidecar has spawned its worker and polls it
C17_Witness ==
  /\ launch.n = 2 /\ spawned = 2 /\ launch.pc = "health" /\ launch.attempt > 0
  /\ launch.port = 8765 /\ get_backend_port = 8765

(* ------------------------------------------------------------------ *)
(* The stale instance reaper: cleanup_leftover_processes               *)
(* ------------------------------------------------------------------ *)
\* what a previous run can have left behind when main() starts: leftover
\* provisioning-station processes, and a worker with its children
StalePids == LeftPids \cup {1} \cup {c \in ChildPids : Parent(c) = 1}
StaleProcs(p) ==
  {NoProc} \cup
  IF p \in ChildPids
  THEN {[st |-> "run", kind |-> k, named |-> n] : k \in ChildKinds, n \in BOOLEAN}
  ELSE {[st |-> "run", kind |-> k, named |-> TRUE] : k \in Kinds}

ReapUnchanged ==
  UNCHANGED <<platform, SIDECAR_STARTED, BACKEND_PORT, SIDECAR_PID,
              SHUTDOWN_IN_PROGRESS, SIDECAR_CHILD, childLock, exitPending,
              launch, body, wpc, spawned, killCount, bodyRuns, taken,
              disk, stager, alloc, gate, dl, nav>>

\* main(): let cleaned = cleanup_leftover_processes();
ReapMain ==
  /\ epc = "main_cleanup"
  /\ \E r \in cleanup_leftover_processes(proc, platform) :
       /\ proc' = r.tab
       /\ reap' = [called |-> TRUE, found |-> cleanup_found(proc), log |-> r.log,
                   cleaned |-> r.killed_count]
  /\ epc' = "main_port"
  /\ order' = Append(order, "reap")
  /\ ReapUnchanged

InitReap ==
  /\ platform \in {"unix", "windows"}
  /\ proc \in [AllPids -> UNION {StaleProcs(p) : p \in AllPids}]
  /\ \A p \in AllPids : proc[p] \in (IF p \in StalePids THEN StaleProcs(p) ELSE {NoProc})
  /\ SIDECAR_STARTED = FALSE /\ BACKEND_PORT = 0 /\ SIDECAR_PID = 0
  /\ SHUTDOWN_IN_PROGRESS = FALSE /\ SIDECAR_CHILD = 0 /\ childLock = "free"
  /\ epc = "main_cleanup" /\ exitPending = FALSE
  /\ launch = LaunchIdle /\ body = [t \in Threads |-> BodyIdle]
  /\ wpc = [n \in WorkerPids |-> "none"] /\ spawned = 0
  /\ killCount = [n \in WorkerPids |-> 0] /\ bodyRuns = 0 /\ order = <<>>
  /\ taken = [n \in WorkerPids |-> 0]
  /\ disk = NoDisk /\ stager = StagerIdle /\ alloc = AllocIdle /\ gate = GateIdle
  /\ reap = ReapIdle /\ dl = DlIdle /\ nav = NavIdle

\* main() up to the call of start_sidecar
NextReap == ReapMain \/ MainPort \/ MainSetup

SpecReap == InitReap /\ [][NextReap]_vars

\* what the reaper did to the process pid, in order
StepsOf(pid) ==
  LET mine == SelectSeq(reap.log, LAMBDA e : e[1] = pid)
  IN [i \in 1..Len(mine) |-> mine[i][2]]

\* C18: cleanup_leftover_processes sends every process its scan found the
\* graceful signal, waits, and force-kills it only if it is still running
\* after the wait; it touches no other process; it returns the number of
\* processes found; and whatever that number, main() goes on to the port
\* allocation and the launch.
C18_GracefulThenForce ==
  reap.called =>
    /\ \A pid \in reap.found :
         StepsOf(pid) \in {<<"graceful", "exited">>, <<"graceful", "running", "force">>}
    /\ \A i \in 1..Len(reap.log) : reap.log[i][1] \in reap.found
    /\ reap.cleaned = Cardinality(reap.found)
    /\ epc \in {"main_port", "main_setup", "loop"}

(* ------------------------------------------------------------------ *)
(* Download names: sanitize_download_filename                          *)
(* ------------------------------------------------------------------ *)
\* length of the names tried, apart from a run of one repeated character
MaxLen == 3
\* if cleaned.len() > 120 { cleaned.truncate(120); }
max_name_len == 120

\* the characters names are made of: the two separators, the dot, a space
\* and a tab (whitespace), a letter, and "*" for any character outside the
\* list of kept ones
Chars == {"/", "\\", ".", " ", "\t", "a", "*"}
\* char::is_whitespace, as used by str::trim
Whitespace == {" ", "\t"}
\* char::is_ascii_alphanumeric
AsciiAlnum ==
  {"a", "b", "c", "d", "e", "f", "g", "h", "i", "j", "k", "l", "m", "n",
   "o", "p", "q", "r", "s", "t", "u", "v", "w", "x", "y", "z", "A", "B",
   "C", "D", "E", "F", "G", "H", "I", "J", "K", "L", "M", "N", "O", "P",
   "Q", "R", "S", "T", "U", "V", "W", "X", "Y", "Z", "0", "1", "2", "3",
   "4", "5", "6", "7", "8", "9"}
\* c.is_ascii_alphanumeric() || matches!(c, '.' | '-' | '_' | '(' | ')' | ' ' | '%')
Kept(c) == c \in AsciiAlnum \cup {".", "-", "_", "(", ")", " ", "%"}

\* let fallback = "download";
fallback == <<"d", "o", "w", "n", "l", "o", "a", "d">>

\* raw.replace('\\', "/")
Replace(s, from, to) == [i \in 1..Len(s) |-> IF s[i] = from THEN to ELSE s[i]]

SetMax(S) == CHOOSE x \in S : \A y \in S : y <= x
SetMin(S) == CHOOSE x \in S : \A y \in S : x <= y

\* the text before the first separator
LastSegment_First(s) ==
  LET seps == {i \in 1..Len(s) : s[i] = "/"}
  IN IF seps = {} THEN s ELSE SubSeq(s, 1, SetMin(seps) - 1)

\* normalized.rsplit('/').next().unwrap_or("")
LastSegment(s) ==
  LET seps == {i \in 1..Len(s) : s[i] = "/"}
  IN IF seps = {} THEN s ELSE SubSeq(s, SetMax(seps) + 1, Len(s))

\* s with the characters of S removed from both ends
TrimSet(s, S) ==
  LET keep == {i \in 1..Len(s) : s[i] \notin S}
  IN IF keep = {} THEN <<>> ELSE SubSeq(s, SetMin(keep), SetMax(keep))
\* str::trim
trim(s) == TrimSet(s, Whitespace)
\* str::trim_matches('.')
trim_matches(s, c) == TrimSet(s, {c})
\* MapChars leaving every character as it is
MapChars_Identity(s) == s
\* base.chars().map(|c| if kept { c } else { '_' }).collect()
MapChars(s) == [i \in 1..Len(s) |-> IF Kept(s[i]) THEN s[i] ELSE "_"]
\* String::truncate
truncate(s, n) == IF Len(s) > n THEN SubSeq(s, 1, n) ELSE s

DotNames == {<<>>, <<".">>, <<".", ".">>}

sanitize_download_filename(raw) ==
  LET normalized == Replace(raw, "\\", "/")
      base == trim(LastSegment(normalized))
      cleaned == trim(trim_matches(MapChars(base), "."))
  IN IF base \in DotNames THEN fallback
     ELSE IF cleaned \in DotNames THEN fallback
     ELSE IF Len(cleaned) > max_name_len THEN truncate(cleaned, max_name_len)
     ELSE cleaned

\* the names of up to n characters
Names(n) == UNION {[1..m -> Chars] : m \in 0..n}
\* a run of k letters
Run(k) == [i \in 1..k |-> "a"]
\* lengths of the run that take a name up to and over max_name_len
RunLens == {0, max_name_len - 2, max_name_len}

DlUnchanged ==
  UNCHANGED <<platform, proc, SIDECAR_STARTED, BACKEND_PORT, SIDECAR_PID,
              SHUTDOWN_IN_PROGRESS, SIDECAR_CHILD, childLock, epc, exitPending,
              launch, body, wpc, spawned, killCount, bodyRuns, order, taken,
              disk, stager, alloc, gate, reap, nav>>

\* sanitize_download_filename(raw) returns
Sanitize ==
  /\ dl.pc = "call"
  /\ dl' = [dl EXCEPT !.pc = "ret", !.out = sanitize_download_filename(dl.raw)]
  /\ DlUnchanged

\* the function is called with a name: a short one, or a short one with a
\* run of letters inserted somewhere
InitSanitize ==
  /\ platform = "unix"
  /\ Quiet
  /\ \E s \in Names(MaxLen) : \E k \in 0..Len(s), n \in RunLens :
       dl = [pc |-> "call", out |-> <<>>,
             raw |-> SubSeq(s, 1, k) \o Run(n) \o SubSeq(s, k + 1, Len(s))]
  /\ disk = NoDisk /\ stager = StagerIdle /\ alloc = AllocIdle /\ gate = GateIdle
  /\ reap = ReapIdle /\ nav = NavIdle

NextSanitize == Sanitize

SpecSanitize == InitSanitize /\ [][NextSanitize]_vars

\* the text after the last '/' or '\' of s
AfterLastSeparator(s) ==
  LET seps == {i \in 1..Len(s) : s[i] \in {"/", "\\"}}
  IN [i \in 1..(Len(s) - (IF seps = {} THEN 0 ELSE SetMax(seps))) |->
        s[i + (IF seps = {} THEN 0 ELSE SetMax(seps))]]

\* C20: the name sanitize_download_filename returns is not empty, has no
\* '/' and no '\', is not "." and not ".."; it is "download" or a stretch of
\* the text after the last separator of the input, each character kept or
\* replaced by '_'; and it is "download" when that last segment is empty,
\* all whitespace, "." or ".." - as it stands or after the cleaning.
C20_SafeName ==
  dl.pc = "ret" =>
    LET out == dl.out
        seg == AfterLastSeparator(dl.raw)
    IN /\ out # <<>>
       /\ \A i \in 1..Len(out) : out[i] \notin {"/", "\\"}
       /\ out \notin {<<".">>, <<".", ".">>}
       /\ \/ out = fallback
          \/ \E k \in 0..(Len(seg) - Len(out)) : \A i \in 1..Len(out) :
               out[i] = IF Kept(seg[k + i]) THEN seg[k + i] ELSE "_"
       /\ ( \/ \A i \in 1..Len(seg) : seg[i] \in Whitespace
            \/ trim(seg) \in DotNames
            \/ trim(trim_matches(MapChars(trim(seg)), ".")) \in DotNames )
            => out = fallback

\* a path with directories and a name of more than 120 characters has been
\* cut down to the first 120 characters of the name
C20_Witness ==
  /\ dl.pc = "ret" /\ Len(dl.out) = max_name_len
  /\ Len(dl.raw) > max_name_len + 2
  /\ dl.raw[1] = "." /\ dl.raw[2] \in {"/", "\\"}

(* ------------------------------------------------------------------ *)
(* Navigation: which links leave the webview                           *)
(* ------------------------------------------------------------------ *)
Some(name) == [some |-> TRUE, name |-> name]
localhost == <<"localhost">>
loopback == <<"127", "0", "0", "1">>
tauri_localhost == <<"tauri", "localhost">>

\* name begins with the labels of p
HasPrefix(name, p) == Len(name) >= Len(p) /\ SubSeq(name, 1, Len(p)) = p

\* is_internal_navigation_target taking every host that begins with an
\* internal name for that name
is_internal_navigation_target_Prefix(scheme, host) ==
  \/ scheme = "tauri" /\ host.some /\ HasPrefix(host.name, localhost)
  \/ scheme \in {"http", "https"} /\ host.some /\ HasPrefix(host.name, tauri_localhost)
  \/ scheme \in {"http", "https"} /\ host.some
       /\ (HasPrefix(host.name, localhost) \/ HasPrefix(host.name, loopback))

\* matches!((scheme, host), ("tauri", Some("localhost"))
\*   | ("http" | "https", Some("tauri.localhost"))
\*   | ("http" | "https", Some("localhost" | "127.0.0.1")))
is_internal_navigation_target(scheme, host) ==
  \/ scheme = "tauri" /\ host = Some(localhost)
  \/ scheme \in {"http", "https"} /\ host = Some(tauri_localhost)
  \/ scheme \in {"http", "https"} /\ host \in {Some(localhost), Some(loopback)}

\* matches!(scheme, "http" | "https") && !is_internal_navigation_target(scheme, host)
should_open_external_browser(scheme, host) ==
  scheme \in {"http", "https"} /\ ~is_internal_navigation_target(scheme, host)

\* the schemes and hosts of the urls the webview is asked to navigate to
Schemes == {"http", "https", "tauri", "file", "blob", "mailto", "ws"}
HostNames == {localhost, loopback, tauri_localhost,
              <<"localhost", "evil", "com">>, <<"127", "0", "0", "1", "evil", "com">>,
              <<"tauri", "localhost", "evil", "com">>, <<"evil", "localhost">>,
              <<"tauri">>, <<"example", "com">>}
Hosts == {NoHost} \cup {Some(n) : n \in HostNames}

NavUnchanged ==
  UNCHANGED <<platform, proc, SIDECAR_STARTED, BACKEND_PORT, SIDECAR_PID,
              SHUTDOWN_IN_PROGRESS, SIDECAR_CHILD, childLock, epc, exitPending,
              launch, body, wpc, spawned, killCount, bodyRuns, order, taken,
              disk, stager, alloc, gate, reap, dl>>

\* .on_navigation(move |url| { let is_external = should_open_external_browser(
\*   url.scheme(), url.host_str()); if is_external { shell.open(url_str, None);
\*   false } else { true } })
OnNavigation ==
  /\ nav.pc = "call"
  /\ LET is_external == should_open_external_browser(nav.scheme, nav.host)
     IN nav' = [nav EXCEPT !.pc = "ret", !.is_external = is_external,
                           !.opened = is_external, !.ret = ~is_external]
  /\ NavUnchanged

\* the webview is asked to navigate to a url
InitNav ==
  /\ platform = "unix"
  /\ Quiet
  /\ \E s \in Schemes, h \in Hosts : nav = [NavIdle EXCEPT !.pc = "call", !.scheme = s, !.host = h]
  /\ disk = NoDisk /\ stager = StagerIdle /\ alloc = AllocIdle /\ gate = GateIdle
  /\ reap = ReapIdle /\ dl = DlIdle

NextNav == OnNavigation

SpecNav == InitNav /\ [][NextNav]_vars

\* the three host names the webview itself is served from
InternalNames == {localhost, loopback, tauri_localhost}

\* C21: a url is opened in the external browser exactly when its scheme is
\* http or https and its host is not exactly localhost, 127.0.0.1 or
\* tauri.localhost; a host that only begins with one of these names is
\* external, a scheme other than http(s) never is, and no url is both
\* internal and external.
C21_ExternalExactly ==
  nav.pc = "ret" =>
    LET s == nav.scheme
        h == nav.host
        web == s \in {"http", "https"}
        exact == h.some /\ h.name \in InternalNames
        begins == h.some /\ h.name \notin InternalNames
                    /\ \E n \in InternalNames : HasPrefix(h.name, n)
    IN /\ nav.is_external = (web /\ ~exact)
       /\ nav.is_external = should_open_external_browser(s, h)
       /\ (web /\ begins) => nav.is_external
       /\ ~web => ~nav.is_external
       /\ ~(is_internal_navigation_target(s, h) /\ should_open_external_browser(s, h))

\* http://localhost.evil.com was handed to the browser and refused in the
\* webview
C21_Witness ==
  /\ nav.pc = "ret" /\ nav.scheme = "http"
  /\ nav.host = Some(<<"localhost", "evil", "com">>)
  /\ nav.is_external /\ nav.opened /\ ~nav.ret

(* ------------------------------------------------------------------ *)
(* Shutdown body: the reported outcome and the escalation              *)
(* ------------------------------------------------------------------ *)
\* thread t's shutdown body returns in this step
BodyReturns(t) == body[t].pc # "ret" /\ body'[t].pc = "ret"

\* the tags of ops
Tags(ops) == {ops[k] : k \in 1..Len(ops)}

\* C22: when shutdown_sidecar_graceful returns true, that execution has
\* issued no unconditional kill at the worker - no kill through the handle,
\* no forced kill of the worker's PID, no kill by name that ended a running
\* worker - and the worker and every snapshotted child are gone, seen so by
\* one of the max_checks polls of the graceful wait or by the first check.
C22_TrueMeansGraceful ==
  [][\A t \in Threads :
       (BodyReturns(t) /\ body'[t].ret) =>
         /\ Tags(body'[t].ops) \cap {"handle_kill", "force"} = {}
         /\ ~("by_name" \in Tags(body'[t].ops)
               /\ \E n \in WorkerPids : Alive(proc, n) /\ ~Alive(proc', n))
         /\ body'[t].pid # 0 =>
              /\ ~is_process_running(proc', body'[t].pid)
              /\ \A c \in body'[t].snap : ~is_process_running(proc', c)
              /\ body'[t].i <= max_checks]_vars

\* what a poll of the activation b looks for: the worker or a snapshotted
\* child running
AnyRunning(P, b) ==
  is_process_running(P, b.pid) \/ \E c \in b.snap : is_process_running(P, c)

\* C23: in a shutdown of a running worker, the forced kill (every
\* snapshotted child, then the worker) is issued only after max_checks polls
\* of the graceful wait each found the worker or a snapshotted child running;
\* the kill by name only after the forced kill and force_checks further
\* polls each found something running; the result is false in both cases,
\* and after the kill by name the body returns without another attempt.
C23_Escalation ==
  [][\A t \in Threads :
       LET b == body[t]
           b2 == body'[t]
       IN b2 # b =>
            /\ b.pc = "poll" =>
                 IF AnyRunning(proc, b)
                 THEN /\ b2.i = b.i + 1 /\ proc' = proc
                      /\ b2.pc = IF b2.i = max_checks THEN "force" ELSE "poll"
                 ELSE b2.pc = "ret" /\ b2.ret
            /\ b2.pc = "force" =>
                 /\ b.pc = "poll" /\ b2.i = max_checks /\ AnyRunning(proc, b)
                 /\ "force" \notin Tags(b2.ops)
            /\ b.pc = "force" =>
                 /\ proc' = force_kill_process(ForceKillEach(proc, b.snap), b.pid)
                 /\ b2.pc = "poll2" /\ b2.i = 0 /\ b2.snap = b.snap /\ b2.pid = b.pid
            /\ b.pc = "poll2" =>
                 IF AnyRunning(proc, b)
                 THEN /\ b2.i = b.i + 1 /\ proc' = proc
                      /\ b2.pc = IF b2.i = force_checks THEN "byname" ELSE "poll2"
                 ELSE b2.pc = "ret" /\ ~b2.ret
            /\ b2.pc = "byname" =>
                 /\ b.pc = "poll2" /\ b2.i = force_checks /\ AnyRunning(proc, b)
                 /\ "force" \in Tags(b2.ops) /\ "by_name" \notin Tags(b2.ops)
            /\ b.pc = "byname" =>
                 /\ proc' = force_kill_by_name(proc)
                 /\ b2.pc = "ret" /\ ~b2.ret
            /\ b.pc = "ret" => b2 = BodyIdle]_vars

\* a worker that no forced kill ends: the body has gone through both waits
\* and the kill by name, and returned false
C23_Witness ==
  \E t \in Threads :
    /\ body[t].pc = "ret" /\ ~body[t].ret /\ body[t].pid # 0
    /\ {"force", "by_name"} \subseteq Tags(body[t].ops)
    /\ is_process_running(proc, body[t].pid)

\* C24: when the PID swapped out is not 0 and the worker is not running at
\* the body's check, the body force-kills each snapshotted child and nothing
\* else, sets SIDECAR_STARTED false and returns true: it has sent no graceful
\* signal, has not touched SIDECAR_CHILD or its handle, and has not polled.
C24_ExitedWorker ==
  [][\A t \in Threads :
       LET b == body[t]
           b2 == body'[t]
       IN (b.pc = "check" /\ b2 # b /\ ~is_process_running(proc, b.pid)) =>
            /\ b.pid # 0
            /\ proc' = ForceKillEach(proc, b.snap)
            /\ \A c \in b.snap : ~is_process_running(proc', c)
            /\ \A p \in AllPids \ b.snap : proc'[p] = proc[p]
            /\ b2.pc = "ret" /\ b2.ret
            /\ b2.ops = <<"swap", "snapshot", "exited", "force_children">>
            /\ b2.h = 0 /\ b2.i = 0
            /\ ~SIDECAR_STARTED'
            /\ UNCHANGED <<SIDECAR_CHILD, childLock, killCount>>]_vars

\* the worker died between the snapshot and the check: its child, in the
\* snapshot and running, was force-killed by the body
C24_Witness ==
  \E t \in Threads :
    /\ body[t].pc = "ret" /\ body[t].ret /\ body[t].pid # 0
    /\ "exited" \in Tags(body[t].ops)
    /\ body[t].snap # {}
    /\ SIDECAR_CHILD = body[t].pid

(* ------------------------------------------------------------------ *)
(* The exit watcher                                                    *)
(* ------------------------------------------------------------------ *)
\* The launcher's stores after a spawn, the exit watchers (a thread blocked
\* in process.wait(), or a task receiving CommandEvent::Terminated) and the
\* shutdown body called on the health timeout go on running as long as the
\* application does.
SpecWatchFair ==
  /\ SpecLaunch
  /\ WF_vars(StorePid \/ StoreChild \/ StoreStarted)
  /\ \A n \in WorkerPids : WF_vars(WatcherStarted(n) \/ WatcherPid(n))
  /\ \A t \in Threads : WF_vars(BodyStep(t))

\* C25: once a spawned worker has exited - by itself, on a signal or killed -
\* its exit watcher stores SIDECAR_STARTED false and then SIDECAR_PID 0,
\* whichever way the worker was launched; the watcher acts only on the exit,
\* and the exit of a worker leaves the application running.
C25_WatcherClears ==
  /\ \A n \in WorkerPids :
       (spawned >= n /\ ~Alive(proc, n)) ~> (wpc[n] = "done")
  /\ [][\A n \in WorkerPids :
          /\ wpc'[n] # wpc[n] =>
               /\ wpc[n] = "none" => wpc'[n] = "wait"
               /\ wpc[n] = "wait" =>
                    ~Alive(proc, n) /\ ~SIDECAR_STARTED' /\ wpc'[n] = "pid"
               /\ wpc[n] = "pid" => SIDECAR_PID' = 0 /\ wpc'[n] = "done"
               /\ wpc[n] # "done"
          /\ (Alive(proc, n) /\ ~Alive(proc', n)) => (epc' = epc /\ Up')]_vars

\* two workers have exited, the first launched through the default sidecar
\* (its handle is still stored), the second from the staged executable, and
\* both watchers have done their stores
C25_Witness ==
  /\ spawned = 2 /\ wpc[1] = "done" /\ wpc[2] = "done"
  /\ SIDECAR_CHILD = 1
  /\ SIDECAR_PID = 0 /\ ~SIDECAR_STARTED

(* ------------------------------------------------------------------ *)
(* Launch: what is recorded after the spawn                            *)
(* ------------------------------------------------------------------ *)
\* start_sidecar goes from its last store to the health check loop
GateEntered == launch.pc = "storestarted" /\ launch'.pc = "health"

\* C26 as stated: when start_sidecar reaches the health check loop after a
\* spawn, on either path, SIDECAR_PID holds the spawned PID, SIDECAR_CHILD
\* holds a handle of that process, and SIDECAR_STARTED is true.
C26_PidHandleStarted ==
  [][GateEntered =>
       /\ SIDECAR_PID' = launch.pid
       /\ SIDECAR_CHILD' = launch.pid
       /\ SIDECAR_STARTED']_vars

\* C26, amended: after a spawn start_sidecar stores the spawned PID in
\* SIDECAR_PID, then - on the default sidecar path only - the handle in
\* SIDECAR_CHILD, then true in SIDECAR_STARTED, and only then makes its
\* first health probe; the staged path stores no handle, and a handle is
\* stored nowhere else.
C26_StoresBeforeGate ==
  [][/\ (launch.pc = "spawn" /\ spawned' # spawned) =>
          /\ launch'.pc = "storepid" /\ launch'.pid = spawned'
          /\ Alive(proc', launch'.pid)
     /\ (launch.pc = "storepid" /\ launch' # launch) =>
          /\ SIDECAR_PID' = launch.pid
          /\ launch'.pc = IF launch.mode = "sidecar" THEN "storechild" ELSE "storestarted"
     /\ (launch.pc = "storechild" /\ launch' # launch) =>
          /\ launch.mode = "sidecar"
          /\ SIDECAR_CHILD' = launch.pid
          /\ launch'.pc = "storestarted"
     /\ (launch.pc = "storestarted" /\ launch' # launch) =>
          /\ SIDECAR_STARTED'
          /\ launch'.pc = "health" /\ launch'.attempt = 0 /\ launch'.pid = launch.pid
     /\ (launch'.pc = "health" /\ launch.pc # "health") => launch.pc = "storestarted"
     /\ (SIDECAR_CHILD' # SIDECAR_CHILD /\ SIDECAR_CHILD' # 0) =>
          launch.pc = "storechild"
     /\ (GateEntered /\ launch.mode = "staged") => SIDECAR_CHILD' = 0]_vars

\* a worker spawned from the staged executable: the health check loop is
\* about to make its first probe, the PID and the started flag are recorded
\* and no handle is
C26_Witness ==
  /\ launch.pc = "health" /\ launch.attempt = 0 /\ launch.mode = "staged"
  /\ SIDECAR_PID = launch.pid /\ launch.pid # 0 /\ SIDECAR_STARTED
  /\ SIDECAR_CHILD = 0

(* ------------------------------------------------------------------ *)
(* Download names: length and characters                               *)
(* ------------------------------------------------------------------ *)
\* the characters a returned name may contain
Allowed == AsciiAlnum \cup {".", "-", "_", "(", ")", " ", "%"}

\* a name of allowed characters only that no trim and no truncation changes
Clean(s) ==
  /\ \A i \in 1..Len(s) : s[i] \in Allowed
  /\ Len(s) <= max_name_len
  /\ Len(s) > 0 => /\ s[1] \notin Whitespace \cup {"."}
                   /\ s[Len(s)] \notin Whitespace \cup {"."}

\* the returned name is at most max_name_len long, made of allowed
\* characters, and "download" or a stretch of the last segment with every
\* character that is not allowed replaced by '_'
ShortAndAllowed(raw, out) ==
  LET seg == AfterLastSeparator(raw)
  IN /\ Len(out) <= max_name_len
     /\ \A i \in 1..Len(out) : out[i] \in Allowed
     /\ \/ out = fallback
        \/ \E k \in 0..(Len(seg) - Len(out)) : \A i \in 1..Len(out) :
             out[i] = IF seg[k + i] \in Allowed THEN seg[k + i] ELSE "_"

\* C27 as stated: the result is at most 120 long and made of allowed
\* characters, every other character of the last segment being replaced by
\* '_'; and every name of allowed characters that needs no trimming and no
\* truncation is returned unchanged.
C27_AllowedAndUnchanged ==
  dl.pc = "ret" =>
    /\ ShortAndAllowed(dl.raw, dl.out)
    /\ Clean(dl.raw) => dl.out = dl.raw

\* C27, amended: as stated, but it is a name that is not empty which is
\* returned unchanged; the empty name gives "download".
C27_AllowedAndNonEmptyUnchanged ==
  dl.pc = "ret" =>
    /\ ShortAndAllowed(dl.raw, dl.out)
    /\ (Clean(dl.raw) /\ dl.raw # <<>>) => dl.out = dl.raw
    /\ dl.raw = <<>> => dl.out = fallback

\* a name with an unsafe character in the middle and of more than 120
\* characters: the character is replaced and the name is cut
C27_Witness ==
  /\ dl.pc = "ret" /\ Len(dl.raw) > max_name_len
  /\ dl.raw[1] = "a" /\ dl.raw[2] = "*"
  /\ Len(dl.out) = max_name_len /\ dl.out[1] = "a" /\ dl.out[2] = "_"

(* ------------------------------------------------------------------ *)
(* Launch against shutdown                                             *)
(* ------------------------------------------------------------------ *)
\* C28: however the steps of start_sidecar and those of the run-event
\* handlers interleave, once the Exit handler has completed no worker that
\* start_sidecar spawned is running (a worker that no forced kill can end
\* left aside).
C28_NoWorkerAfterExit ==
  epc = "terminated" =>
    \A n \in WorkerPids : Alive(proc, n) => proc[n].kind = "stuck"

\* C29: in every state in which no execution of the shutdown body is under
\* way, SIDECAR_STARTED true implies SIDECAR_PID non-zero.
C29_StartedImpliesPid ==
  (\A t \in Threads : body[t].pc = "idle") =>
    (SIDECAR_STARTED => SIDECAR_PID # 0)

(* ------------------------------------------------------------------ *)
(* Staging: reuse of the cache                                         *)
(* ------------------------------------------------------------------ *)
\* the last call of setup_sidecar_bundle returned the cached executable
\* without staging anything
ReusedCache == stager.ret = "ok" /\ stager.ops = <<>>

\* C30: setup_sidecar_bundle returns the cached copy of the source
\* executable without staging only when the cached _internal is a complete
\* copy of the source _internal: after a staging that failed once the
\* executable was copied - the old _internal still there, removed or partly
\* removed, the new one partly copied - the next call stages again.
C30_ReuseOnlyComplete ==
  (ReusedCache /\ stager.pre.extracted_exe = stager.pre.sidecar_src) =>
    /\ stager.pre.extracted_internal = stager.pre.internal_src
    /\ stager.pre.extracted_internal # Partial

(* ------------------------------------------------------------------ *)
(* Shutdown body: who obtains the PID                                  *)
(* ------------------------------------------------------------------ *)
\* C31: the PID of a spawned worker is returned by SIDECAR_PID.swap(0) to at
\* most one execution of shutdown_sidecar_graceful, so that no two
\* executions work on the same PID, at the same time or one after the other;
\* an execution whose swap returns 0 does the kill by name and nothing else.
C31_OneTaker ==
  /\ [](\A n \in WorkerPids : taken[n] <= 1)
  /\ [](\A t, u \in Threads : (t # u /\ body[t].pid # 0) => body[u].pid # body[t].pid)
  /\ [][\A t \in Threads :
          /\ (body[t].pc = "swap" /\ body'[t] # body[t]) =>
               /\ body'[t].pid = SIDECAR_PID /\ SIDECAR_PID' = 0
               /\ body'[t].pc = IF SIDECAR_PID = 0 THEN "zero" ELSE "snapshot"
          /\ (body[t].pid = 0 /\ body[t].pc # "idle" /\ body'[t] # body[t]) =>
               /\ body[t].pc \in {"swap", "zero", "ret"}
               /\ body[t].pc = "zero" =>
                    /\ proc' = force_kill_by_name(proc)
                    /\ body'[t].pc = "ret" /\ body'[t].ops = <<"swap", "by_name">>]_vars

\* the close handler's execution and the health timeout's have both swapped:
\* the timeout's obtained the worker's PID and is at work on it, the
\* handler's got 0 and has done the kill by name
C31_Witness ==
  /\ taken[1] = 1 /\ bodyRuns = 2
  /\ body["as"].pid = 1 /\ body["as"].pc \in {"poll", "poll2"}
  /\ body["ev"].pid = 0 /\ body["ev"].pc = "ret"
  /\ "by_name" \in Tags(body["ev"].ops)

(* ------------------------------------------------------------------ *)
(* Download names: sanitizing a sanitized name                         *)
(* ------------------------------------------------------------------ *)
\* C32: sanitize_download_filename applied to a name it has returned gives
\* that name again.
C32_Idempotent ==
  dl.pc = "ret" => sanitize_download_filename(dl.out) = dl.out
====
